---- MODULE Spec2Model ----
(***************************************************************************)
(* State-machine model of the staticauth / gatekeeper identity gate:       *)
(* the store and its transactions (database.py get_db), the OTP service,   *)
(* the session service, the passkey ceremonies and the forward-auth        *)
(* validate decision.                                                      *)
(*                                                                         *)
(* Store semantics.  The default database is SQLite through aiosqlite      *)
(* (config.py database_url).  Every request owns one AsyncSession.  A      *)
(* SELECT outside a transaction reads the committed tables; the first      *)
(* flush that writes opens the transaction and takes the single SQLite     *)
(* write lock, which is held until get_db commits (handler returned) or    *)
(* rolls back (handler raised).  Uncommitted rows are visible only to the  *)
(* request that wrote them.  A request that needs the lock while another   *)
(* holds it waits.                                                         *)
(***************************************************************************)
EXTENDS Integers, Sequences, FiniteSets, TLC

\* ------------------------------------------------------------------ bounds
MaxTime == 1          \* the clock runs 0..MaxTime
MaxOtps == 2          \* rows of the otps table
MaxSessions == 2      \* rows of the sessions table
MaxCount == 2         \* signature counters run 0..MaxCount
MaxChallenges == 2    \* challenges ever generated
MaxCreds == 2         \* rows of the passkey_credentials table
MaxApps == 2          \* apps ever created
MaxTokenLen == 2      \* characters of a token handed to the signer
MaxAccessRequests == 2 \* rows of the app_access_requests table

\* ------------------------------------------------------- program constants
\* The clock of a specification counts lifetimes: one tick is the lifetime
\* of the rows that specification lets expire.
OtpTTL == 1           \* settings.otp_expiry_minutes
SessionTTL == 1       \* settings.session_expiry_days

VARIABLES
    now,        \* datetime.now(timezone.utc) / utcnow()
    db,         \* committed tables
    tx,         \* working copy of the request holding the write transaction
    dbWriter,   \* that request, or NoWriter
    req,        \* in-flight requests: handler, arguments, position, locals
    nextId,     \* primary keys / tokens handed out so far (uuid4, token_urlsafe)
    verified,   \* the OTPService.verify calls that returned True in a request
                \* that is over, with the row they consumed and whether the
                \* request committed; create_and_send for the pair clears them
    challenges, \* the module-level dictionaries _passkey_challenges and
                \* _passkey_registration_challenges of api/v1/auth.py
    settings    \* get_settings(): the configuration the process started with

vars == <<now, db, tx, dbWriter, req, nextId, verified, challenges, settings>>

\* The requests that may be in flight at once: two, enough for every pair
\* of handlers to interleave.
Requests == 1..2

\* dbWriter when no request holds the write transaction.
NoWriter == 0

\* Settings(): default_app_access: Literal["allow", "deny"] = "allow"
DefaultSettings == [default_app_access |-> "allow"]

\* Both challenge dictionaries empty, as at import of api/v1/auth.py.
NoChallenges == [signin |-> {}, register |-> {}]

\* ------------------------------------------------------------ input values
\* Addresses as clients type them, and str.lower() on them.
RawEmails == {"A@x.com", "b@y.org"}

Lower(e) == IF e = "A@x.com" THEN "a@x.com" ELSE e

\* email.split("@")[-1].lower()
DomainOf(e) == IF Lower(e) = "a@x.com" THEN "x.com" ELSE "y.org"

\* settings.accepted_domains_list
AcceptedDomains == {"x.com"}

\* Every domain taken as accepted.
is_accepted_domain_Any(e) == TRUE

\* Settings.is_accepted_domain
is_accepted_domain(e) == DomainOf(e) \in AcceptedDomains

\* 6-digit codes "".join(secrets.choice("0123456789") for _ in range(6))
Codes == {"123456", "654321"}

Purposes == {"signin", "register"}

\* --------------------------------------------------------------- the store
EmptyDb ==
    [users |-> {}, sessions |-> {}, otps |-> {}, creds |-> {},
     apps |-> {}, grants |-> {}, requests |-> {}]

\* What a SELECT of request r sees.
View(r) == IF dbWriter = r THEN tx ELSE db

\* flush of pending changes: opens the transaction on the first write.
DbWrite(r, d) ==
    /\ dbWriter \in {NoWriter, r}
    /\ tx' = d
    /\ dbWriter' = r
    /\ UNCHANGED db

\* get_db after the handler returned: session.commit()
DbCommit(r) ==
    IF dbWriter = r
    THEN /\ db' = tx
         /\ tx' = EmptyDb
         /\ dbWriter' = NoWriter
    ELSE UNCHANGED <<db, tx, dbWriter>>

\* get_db after the handler raised: session.rollback()
DbRollback(r) ==
    IF dbWriter = r
    THEN /\ tx' = EmptyDb
         /\ dbWriter' = NoWriter
         /\ UNCHANGED db
    ELSE UNCHANGED <<db, tx, dbWriter>>

UserByEmail(d, e) == {u \in d.users : u.email = e}

\* ------------------------------------------------------------ OTP service
\* OTP.is_expired / OTP.is_valid (models/otp.py)
is_expired(o, t) == t > o.expires_at

is_valid(o, t) == ~o.used /\ ~is_expired(o, t)

\* _invalidate_previous without the purpose filter.
InvalidateMatches_AnyPurpose(d, email, purpose) ==
    {o \in d.otps : o.email = email /\ ~o.used}

\* The WHERE clause of _invalidate_previous.
InvalidateMatches(d, email, purpose) ==
    {o \in d.otps : o.email = email /\ o.purpose = purpose /\ ~o.used}

\* The WHERE clause of verify without the purpose filter.
VerifyMatches_AnyPurpose(d, email, code, purpose, t) ==
    {o \in d.otps : /\ o.email = email
                    /\ o.code = code
                    /\ ~o.used
                    /\ o.expires_at > t}

\* The WHERE clause of verify.
VerifyMatches(d, email, code, purpose, t) ==
    {o \in d.otps : /\ o.email = email
                    /\ o.code = code
                    /\ o.purpose = purpose
                    /\ ~o.used
                    /\ o.expires_at > t}

\* order_by(created_at.desc()).limit(1): the rows a LIMIT 1 may return.
Newest(S) == {o \in S : \A p \in S : p.created_at <= o.created_at}

MarkUsed(d, ids) ==
    [d EXCEPT !.otps = {IF o.id \in ids THEN [o EXCEPT !.used = TRUE] ELSE o
                        : o \in d.otps}]

NewOtp(id, email, code, purpose, t) ==
    [id |-> id, email |-> email, code |-> code, purpose |-> purpose,
     expires_at |-> t + OtpTTL, used |-> FALSE, created_at |-> t]

\* --------------------------------------------------------------- requests
\* secrets.token_urlsafe(32): the n-th token handed out, a string over the
\* token alphabet that never contains the separator ".".
RECURSIVE TokenOf(_)
TokenOf(n) ==
    IF n <= 0 THEN <<>>
    ELSE TokenOf((n - 1) \div 2) \o <<IF n % 2 = 1 THEN "a" ELSE "b">>

\* ------------------------------------------------------- signed cookies
\* Strings are sequences of characters.  The characters of a str: two
\* characters of the url-safe base64 alphabet, the separator, and one
\* character that is not ASCII.
Chars == {"a", "b", ".", "é"}

\* The strings of up to n characters over the set C.
RECURSIVE Strings(_, _)
Strings(C, n) ==
    IF n = 0 THEN {<<>>}
    ELSE LET shorter == Strings(C, n - 1)
         IN  shorter \cup {s \o <<c>> : s \in shorter, c \in C}

\* The tokens handed to create_signed_token.
Tokens == Strings(Chars, MaxTokenLen)

\* Position of a string in the enumeration of all strings over Chars.
RECURSIVE Num(_)
Num(s) ==
    IF s = <<>> THEN 0
    ELSE 4 * Num(SubSeq(s, 1, Len(s) - 1))
         + (IF s[Len(s)] = "a" THEN 1 ELSE IF s[Len(s)] = "b" THEN 2
            ELSE IF s[Len(s)] = "." THEN 3 ELSE 4)

\* The w low bits of n as a string over the urlsafe-base64 characters
\* "a" and "b".
RECURSIVE Bits(_, _)
Bits(n, w) ==
    IF w = 0 THEN <<>>
    ELSE Bits(n \div 2, w - 1) \o <<IF n % 2 = 0 THEN "a" ELSE "b">>

\* Length of the tag: wide enough to tell the tokens of up to MaxTokenLen
\* characters apart (43 characters for the 256 bits of SHA-256).
SigLen == 2 * MaxTokenLen + 1

\* base64.urlsafe_b64encode(hmac.new(secret_key, token, sha256).digest())
\* without the padding: a tag of fixed width over an alphabet without ".",
\* idealised as collision-free on Tokens.
Sig(token) == Bits(Num(token), SigLen)

create_signed_token(token) == token \o <<".">> \o Sig(token)

\* str.rsplit(".", 1) of a string that contains ".": the index of the
\* first "." instead of the last.
SplitAt_FirstDot(signed_token) ==
    CHOOSE k \in 1..Len(signed_token) :
        /\ signed_token[k] = "."
        /\ \A j \in 1..(k - 1) : signed_token[j] # "."

\* str.rsplit(".", 1) of a string that contains ".": the index of the
\* last ".".
SplitAt(signed_token) ==
    CHOOSE k \in 1..Len(signed_token) :
        /\ signed_token[k] = "."
        /\ \A j \in (k + 1)..Len(signed_token) : signed_token[j] # "."

\* hmac.compare_digest(a, b) of two str raises TypeError when one of them
\* has a character that is not ASCII.
compare_digest_raises(a, b) ==
    \E s \in {a, b} : \E i \in 1..Len(s) : s[i] = "é"

\* hmac.compare_digest(a, b) where it returns.
compare_digest(a, b) == a = b

\* verify_signed_token raises instead of returning: the TypeError of
\* hmac.compare_digest leaves the function.
verify_signed_token_raises(signed_token) ==
    /\ \E i \in 1..Len(signed_token) : signed_token[i] = "."
    /\ LET i == SplitAt(signed_token)
       IN  compare_digest_raises(
               SubSeq(signed_token, i + 1, Len(signed_token)),
               Sig(SubSeq(signed_token, 1, i - 1)))

\* What verify_signed_token returns where it returns: the token, or None
\* as the empty set.
verify_signed_token(signed_token) ==
    IF \A i \in 1..Len(signed_token) : signed_token[i] # "." THEN {}
    ELSE LET i == SplitAt(signed_token)
             token == SubSeq(signed_token, 1, i - 1)
             provided_sig == SubSeq(signed_token, i + 1, Len(signed_token))
         IN  IF compare_digest(provided_sig, Sig(token)) THEN {token} ELSE {}

\* set_session_cookie with the bare token as the cookie value.
set_session_cookie_Unsigned(rec, token) == [rec EXCEPT !.cookie = token]

\* set_session_cookie(response, session.token): the cookie of the response
\* is the signed token.
set_session_cookie(rec, token) ==
    [rec EXCEPT !.cookie = create_signed_token(token)]

\* The session cookies a client may present: none, the signed token of each
\* session the service may mint, a token with the signature of another
\* token, a token without signature, a token followed by a tag with a
\* character that is not ASCII.
Cookies ==
    {<<>>}
    \cup {create_signed_token(TokenOf(n)) : n \in 1..MaxSessions}
    \cup {TokenOf(1) \o <<".">> \o Sig(TokenOf(2)), TokenOf(1),
          TokenOf(1) \o <<".", "é">>}

\* uuid4 primary key of a new row: an id no row of the table carries.
FreshId(rows) ==
    CHOOSE i \in 1..(Cardinality(rows) + 1) :
        /\ \A o \in rows : o.id # i
        /\ \A j \in 1..(i - 1) : \E o \in rows : o.id = j

Idle ==
    [op |-> "none", pc |-> "idle", email |-> "", code |-> "", sel |-> {},
     found |-> 0, ok |-> FALSE, after |-> FALSE, status |-> 0, user |-> 0,
     cookie |-> <<>>, detail |-> ""]

Free(r) == req[r].pc = "idle"

\* A new request takes the lowest free slot.
Slot(r) == Free(r) /\ \A q \in DOMAIN req : Free(q) => r <= q

CreateOps == {"register", "signin"}
VerifyOps == {"register_verify", "signin_verify"}

InFlight(ops) ==
    Cardinality({q \in DOMAIN req : ~Free(q) /\ req[q].op \in ops})

\* Room for the row the request may insert.
OtpRoom == Cardinality(db.otps) + InFlight(CreateOps) < MaxOtps
SessionRoom == Cardinality(db.sessions) + InFlight(VerifyOps) < MaxSessions

PurposeOf(op) ==
    IF op \in {"register", "register_verify"} THEN "register" ELSE "signin"

ForgetPair(S, email, purpose) ==
    {t \in S : ~(t.email = email /\ t.purpose = purpose)}

SameCall(t, rec) ==
    t.email = rec.email /\ t.code = rec.code /\ t.purpose = PurposeOf(rec.op)

\* The handler raised HTTPException(status).
Raise(rec, status) == [rec EXCEPT !.pc = "raise", !.status = status]

\* The handler returned its 200 response.
Return(rec) == [rec EXCEPT !.pc = "return", !.status = 200]

\* POST /auth/register up to the call of create_and_send: the request
\* arrives and the handler looks the email up.
register(r, e) ==
    /\ Slot(r) /\ OtpRoom
    /\ LET rec == [Idle EXCEPT !.op = "register", !.email = Lower(e)]
           existing_user == UserByEmail(View(r), Lower(e))
       IN  req' = [req EXCEPT ![r] =
                     IF existing_user # {}
                     THEN Raise(rec, 400)
                     ELSE [rec EXCEPT !.pc = "inv_select"]]
    /\ UNCHANGED <<now, db, tx, dbWriter, nextId, verified, challenges, settings>>

\* POST /auth/signin up to the call of create_and_send.
signin(r, e) ==
    /\ Slot(r) /\ OtpRoom
    /\ LET rec == [Idle EXCEPT !.op = "signin", !.email = Lower(e)]
           user == UserByEmail(View(r), Lower(e))
       IN  req' = [req EXCEPT ![r] =
                     IF user = {} \/ \E u \in user : u.status # "approved"
                     THEN Raise(rec, 400)
                     ELSE [rec EXCEPT !.pc = "inv_select"]]
    /\ UNCHANGED <<now, db, tx, dbWriter, nextId, verified, challenges, settings>>

\* OTPService._invalidate_previous: the SELECT of the unused codes of
\* (email, purpose) into the local list otps.
invalidate_previous(r) ==
    /\ req[r].pc = "inv_select"
    /\ LET otps == InvalidateMatches(View(r), req[r].email,
                                     PurposeOf(req[r].op))
       IN  req' = [req EXCEPT ![r] = [@ EXCEPT !.pc = "inv_write",
                                               !.sel = {o.id : o \in otps}]]
    /\ verified' = ForgetPair(verified, req[r].email, PurposeOf(req[r].op))
    /\ UNCHANGED <<now, db, tx, dbWriter, nextId, challenges, settings>>

\* OTPService.create_and_send from the first write on: otp.used = True for
\* each selected row and flush; generate the code, add the row and flush;
\* send the mail.  The handler returns when the mail was sent and raises
\* 500 when it was not.
create_and_send(r) ==
    /\ req[r].pc = "inv_write"
    /\ \E code \in Codes, sent \in BOOLEAN :
         LET purpose == PurposeOf(req[r].op)
             marked == MarkUsed(View(r), req[r].sel)
             otp == NewOtp(FreshId(marked.otps), req[r].email, code,
                           purpose, now)
         IN  /\ DbWrite(r, [marked EXCEPT !.otps = @ \cup {otp}])
             /\ req' = [req EXCEPT ![r] =
                          IF sent
                          THEN Return([@ EXCEPT !.code = code, !.ok = TRUE])
                          ELSE Raise([@ EXCEPT !.code = code], 500)]
    /\ verified' = ForgetPair(verified, req[r].email, PurposeOf(req[r].op))
    /\ UNCHANGED <<now, nextId, challenges, settings>>

\* The codes of the (email, purpose) that carry the posted code, valid or
\* not.
SameCode(d, rec) ==
    {o \in d.otps : /\ o.email = rec.email /\ o.code = rec.code
                    /\ o.purpose = PurposeOf(rec.op)}

InvalidOrExpired == "Invalid or expired verification code."

\* The message the gatekeeper's OTPService.verify returns with a failure:
\* none, whatever made the verification fail.
error_message(same_code) == ""

\* A detail that tells a wrong code from a used or expired one.
verify_detail_Cause(same_code) ==
    IF same_code = {} THEN "Invalid verification code."
    ELSE "Verification code expired."

\* detail=error_message or "Invalid or expired verification code."; the
\* staticauth handlers give the literal.
verify_detail(same_code) ==
    IF error_message(same_code) = "" THEN InvalidOrExpired
    ELSE error_message(same_code)

\* OTPService.verify: the SELECT.  No row: verify returns False and the
\* handler raises 400.
VerifySelect(rec, d) ==
    LET purpose == PurposeOf(rec.op)
        rows == VerifyMatches(d, rec.email, rec.code, purpose, now)
        seen == [rec EXCEPT !.after = \E t \in verified : SameCall(t, rec)]
    IN  IF rows = {}
        THEN {Raise([seen EXCEPT !.ok = FALSE,
                                 !.detail = verify_detail(SameCode(d, rec))],
                    400)}
        ELSE {[seen EXCEPT !.pc = "v_write", !.found = otp.id] :
                otp \in Newest(rows)}

\* POST /auth/register/verify: the request arrives and calls
\* OTPService.verify, which runs its SELECT.
register_verify(r, e, c) ==
    /\ Slot(r) /\ SessionRoom
    /\ \E rec \in VerifySelect([Idle EXCEPT !.op = "register_verify",
                                  !.email = Lower(e), !.code = c], View(r)) :
         req' = [req EXCEPT ![r] = rec]
    /\ UNCHANGED <<now, db, tx, dbWriter, nextId, verified, challenges, settings>>

\* POST /auth/signin/verify up to the call of OTPService.verify.
signin_verify(r, e, c) ==
    /\ Slot(r) /\ SessionRoom
    /\ LET rec == [Idle EXCEPT !.op = "signin_verify", !.email = Lower(e),
                               !.code = c]
           user == {u \in UserByEmail(View(r), Lower(e)) :
                      u.status = "approved"}
       IN  req' = [req EXCEPT ![r] =
                     IF user = {}
                     THEN Raise(rec, 400)
                     ELSE [rec EXCEPT !.pc = "v_select",
                                      !.user = (CHOOSE u \in user : TRUE).id]]
    /\ UNCHANGED <<now, db, tx, dbWriter, nextId, verified, challenges, settings>>

\* OTPService.verify called by signin_verify: the SELECT.
verify(r) ==
    /\ req[r].pc = "v_select"
    /\ \E rec \in VerifySelect(req[r], View(r)) :
         req' = [req EXCEPT ![r] = rec]
    /\ UNCHANGED <<now, db, tx, dbWriter, nextId, verified, challenges, settings>>

NewSession(n, user_id, t) ==
    [token |-> TokenOf(n), user_id |-> user_id, expires_at |-> t + SessionTTL]

\* SessionService.create
SessionCreate(d, n, user_id, t) ==
    [d EXCEPT !.sessions = @ \cup {NewSession(n, user_id, t)}]

\* POST /auth/register/verify from the first write on: OTPService.verify
\* sets otp.used = True, flushes and returns True; the handler refuses an
\* email that has a user, else adds the user and, for an accepted domain,
\* a session.
register_verify_finish(r) ==
    /\ req[r].op = "register_verify" /\ req[r].pc = "v_write"
    /\ LET used == MarkUsed(View(r), {req[r].found})
           auto_approve == is_accepted_domain(req[r].email)
           uid == nextId.user + 1
           user == [id |-> uid, email |-> req[r].email, is_admin |-> FALSE,
                    is_seeded |-> FALSE,
                    status |-> IF auto_approve THEN "approved" ELSE "pending"]
           withUser == [used EXCEPT !.users = @ \cup {user}]
           rec == [req[r] EXCEPT !.ok = TRUE]
       IN  IF UserByEmail(used, req[r].email) # {}
           THEN /\ DbWrite(r, used)
                /\ req' = [req EXCEPT ![r] = Raise(rec, 400)]
                /\ UNCHANGED nextId
           ELSE IF auto_approve
           THEN /\ DbWrite(r, SessionCreate(withUser, nextId.session + 1,
                                            uid, now))
                /\ nextId' = [nextId EXCEPT !.user = uid, !.session = @ + 1]
                /\ req' = [req EXCEPT ![r] =
                             Return(set_session_cookie(
                                        [rec EXCEPT !.user = uid],
                                        TokenOf(nextId.session + 1)))]
           ELSE /\ DbWrite(r, withUser)
                /\ nextId' = [nextId EXCEPT !.user = uid]
                /\ req' = [req EXCEPT ![r] = Return(rec)]
    /\ UNCHANGED <<now, verified, challenges, settings>>

\* POST /auth/signin/verify from the first write on: OTPService.verify sets
\* otp.used = True, flushes and returns True; the handler mints the session.
signin_verify_finish(r) ==
    /\ req[r].op = "signin_verify" /\ req[r].pc = "v_write"
    /\ DbWrite(r, SessionCreate(MarkUsed(View(r), {req[r].found}),
                                nextId.session + 1, req[r].user, now))
    /\ nextId' = [nextId EXCEPT !.session = @ + 1]
    /\ req' = [req EXCEPT ![r] =
                 Return(set_session_cookie([@ EXCEPT !.ok = TRUE],
                                           TokenOf(nextId.session + 1)))]
    /\ UNCHANGED <<now, verified, challenges, settings>>

\* database.get_db: commit when the handler returned, rollback when it
\* raised; the response leaves and the request is over.
get_db(r) ==
    /\ req[r].pc \in {"return", "raise"}
    /\ IF req[r].pc = "return" THEN DbCommit(r) ELSE DbRollback(r)
    /\ req' = [req EXCEPT ![r] = Idle]
    /\ verified' =
         IF req[r].op \in VerifyOps /\ req[r].ok
         THEN verified \cup {[id |-> req[r].found, email |-> req[r].email,
                              code |-> req[r].code,
                              purpose |-> PurposeOf(req[r].op),
                              committed |-> req[r].pc = "return"]}
         ELSE verified
    /\ UNCHANGED <<now, nextId, challenges, settings>>

\* POST /admin/users by an administrator, as one transaction.
create_user(e, auto_approve, is_admin) ==
    /\ dbWriter = NoWriter
    /\ UserByEmail(db, Lower(e)) = {}
    /\ db' = [db EXCEPT !.users = @ \cup
                {[id |-> nextId.user + 1, email |-> Lower(e),
                  is_admin |-> is_admin, is_seeded |-> FALSE,
                  status |-> IF auto_approve THEN "approved" ELSE "pending"]}]
    /\ nextId' = [nextId EXCEPT !.user = @ + 1]
    /\ UNCHANGED <<now, tx, dbWriter, req, verified, challenges, settings>>

Tick ==
    /\ now < MaxTime
    /\ now' = now + 1
    /\ UNCHANGED <<db, tx, dbWriter, req, nextId, verified, challenges, settings>>

\* An approved, non-admin identity registered earlier.
Alice == [id |-> 1, email |-> "a@x.com", is_admin |-> FALSE,
          is_seeded |-> FALSE, status |-> "approved"]

InitOTP ==
    /\ now = 0
    /\ db = [EmptyDb EXCEPT !.users = {Alice}]
    /\ tx = EmptyDb
    /\ dbWriter = NoWriter
    /\ req = [r \in Requests |-> Idle]
    /\ nextId = [session |-> 0, user |-> 1, challenge |-> 0, app |-> 0]
    /\ verified = {}
    /\ challenges = NoChallenges
    /\ settings = DefaultSettings

NextOTP ==
    \/ \E r \in Requests, e \in RawEmails : register(r, e)
    \/ \E r \in Requests, e \in RawEmails : signin(r, e)
    \/ \E r \in Requests : invalidate_previous(r)
    \/ \E r \in Requests : create_and_send(r)
    \/ \E r \in Requests, e \in RawEmails, c \in Codes : register_verify(r, e, c)
    \/ \E r \in Requests, e \in RawEmails, c \in Codes : signin_verify(r, e, c)
    \/ \E r \in Requests : verify(r)
    \/ \E r \in Requests : register_verify_finish(r)
    \/ \E r \in Requests : signin_verify_finish(r)
    \/ \E r \in Requests : get_db(r)
    \/ \E e \in RawEmails : create_user(e, TRUE, FALSE)
    \/ Tick

SpecOTP == InitOTP /\ [][NextOTP]_vars

\* ------------------------------------------------------- claims C3 .. C7
Valid(o) == ~o.used /\ o.expires_at > now

\* C3: two sequential OTPService.verify calls with the same (email, code,
\* purpose) and no create_and_send between them return success then
\* failure: no call that starts after such a success returns True.
C3_SecondVerifyFails ==
    \A r \in Requests :
        ~(req[r].op \in VerifyOps /\ req[r].ok /\ req[r].after)

\* C4: create_and_send(email, purpose) marks as used every previously
\* unused OTP of exactly the (lowercased email, purpose) pair, and leaves
\* every OTP of another email or another purpose as it was.
C4_InvalidatesExactlyThePair ==
    [][\A r \in Requests :
        LET email == req[r].email
            purpose == PurposeOf(req[r].op)
        IN  /\ (req[r].pc = "inv_select" /\ req'[r].pc = "inv_write") =>
                 req'[r].sel =
                   {o.id : o \in {x \in View(r).otps :
                      x.email = email /\ x.purpose = purpose /\ ~x.used}}
            /\ (req[r].pc = "inv_write" /\ req'[r].pc # "inv_write") =>
                 /\ \A o \in View(r).otps : o.id \in req[r].sel =>
                        [o EXCEPT !.used = TRUE] \in tx'.otps
                 /\ \A o \in View(r).otps :
                        (o.email # email \/ o.purpose # purpose) =>
                            o \in tx'.otps
    ]_vars

\* C4 witness: create_and_send has run for one purpose of an email and an
\* unused code of the other purpose of that email is still in the table.
C4_Witness ==
    \E r \in Requests :
        /\ req[r].op \in CreateOps /\ req[r].pc \in {"return", "raise"}
        /\ dbWriter = r
        /\ \E n \in tx.otps, o \in tx.otps :
             /\ n.email = req[r].email /\ n.purpose = PurposeOf(req[r].op)
             /\ n.code = req[r].code /\ ~n.used
             /\ o.email = n.email /\ o.purpose # n.purpose /\ ~o.used

\* C5: in every reachable state at most one unused and unexpired OTP
\* exists per (email, purpose), also when create_and_send requests for
\* the same pair run concurrently.
C5_AtMostOneValid ==
    \A o1 \in db.otps, o2 \in db.otps :
        (o1.email = o2.email /\ o1.purpose = o2.purpose
         /\ Valid(o1) /\ Valid(o2)) => o1 = o2

\* C6: of two OTPService.verify requests that run concurrently against one
\* valid OTP at most one returns success: no call returns True for a row
\* that another, committed, request has already consumed.
C6_OneConcurrentWinner ==
    \A r \in Requests :
        ~(/\ req[r].op \in VerifyOps /\ req[r].ok
          /\ \E t \in verified : t.committed /\ t.id = req[r].found)

\* The step in which OTPService.verify runs its SELECT for request r.
VerifyCallStep(r) ==
    \/ req[r].pc = "v_select" /\ req'[r].pc # "v_select"
    \/ req[r].pc = "idle" /\ req'[r].op = "register_verify"

\* C7: OTPService.verify(email, code, purpose) returns success if and only
\* if, at the time of the call, a row exists with the lowercased email, the
\* code, the purpose, used = false and expires_at > now.
C7_VerifyIffMatchingRow ==
    [][\A r \in Requests :
        /\ VerifyCallStep(r) =>
             ((req'[r].pc = "v_write") <=>
                 \E o \in View(r).otps :
                     /\ o.email = req'[r].email
                     /\ o.code = req'[r].code
                     /\ o.purpose = PurposeOf(req'[r].op)
                     /\ o.used = FALSE
                     /\ o.expires_at > now)
        /\ (req[r].pc = "v_write" /\ req'[r].pc # "v_write") => req'[r].ok
        /\ (VerifyCallStep(r) /\ req'[r].pc # "v_write") =>
             ~req'[r].ok /\ req'[r].status = 400
    ]_vars

\* C7 witness: a signin verification has failed although an unused,
\* unexpired register code with the same email and code is in the table.
C7_Witness ==
    \E r \in Requests :
        /\ req[r].op = "signin_verify" /\ req[r].pc = "raise"
        /\ req[r].user # 0 /\ ~req[r].ok
        /\ \E o \in db.otps :
             /\ o.email = req[r].email /\ o.code = req[r].code
             /\ o.purpose = "register" /\ Valid(o)

\* -------------------------------------------------------- session service
\* SessionService.get_by_token with the comparison expires_at >= now.
get_by_token_AtExpiry(d, token, t) ==
    {s \in d.sessions : s.token = token /\ s.expires_at >= t}

\* SessionService.get_by_token: the session, or None as the empty set.
get_by_token(d, token, t) ==
    {s \in d.sessions : s.token = token /\ s.expires_at > t}

\* get_current_user_optional without the status test.
ApprovedUser_AnyStatus(user) == user

\* get_current_user_optional: "if not user or user.status != APPROVED".
ApprovedUser(user) == {u \in user : u.status = "approved"}

\* validate without the administrator shortcut.
current_user_is_admin_Never(current_user) == FALSE

\* validate: "if current_user.is_admin"
current_user_is_admin(current_user) == \E u \in current_user : u.is_admin

IdleGate ==
    [op |-> "none", pc |-> "idle", cookie |-> <<>>, x_gk_app |-> "",
     token |-> {}, session |-> {}, user |-> {}, app |-> {}, access |-> {},
     status |-> 0, x_auth_user |-> "", role |-> "", ok |-> FALSE]

\* validate without the identity header.
base_headers_None(current_user) == ""

\* validate: base_headers = {"X-Auth-User": current_user.email}
base_headers(current_user) == (CHOOSE u \in current_user : TRUE).email

\* Response(status_code=...) of validate: 401 and 403 carry no header, 200
\* carries base_headers and X-Auth-Role when there is a role ("" is none).
Respond(rec, status, role) ==
    [rec EXCEPT !.pc = "return", !.status = status, !.role = role,
                !.x_auth_user = IF status = 200 THEN base_headers(rec.user)
                                ELSE ""]

\* A request that ends before validate has read X-GK-App: the header has
\* no part in the answer and is left out of the record.
Unread(rec) == [rec EXCEPT !.x_gk_app = ""]

\* GET /auth/validate: the request arrives and get_current_user_optional
\* checks the cookie and calls get_user_by_token, which runs get_by_token.
\* An exception of verify_signed_token leaves the dependency: the answer
\* is the 500 of the server's error handler.
validate(r, cookie, x_gk_app) ==
    /\ Slot(r)
    /\ LET token == IF cookie = <<>> THEN {}
                    ELSE {t \in verify_signed_token(cookie) : t # <<>>}
           rec == [IdleGate EXCEPT !.op = "validate", !.cookie = cookie,
                                   !.x_gk_app = x_gk_app, !.token = token]
           session == UNION {get_by_token(View(r), t, now) : t \in token}
       IN  req' = [req EXCEPT ![r] =
                     IF cookie # <<>> /\ verify_signed_token_raises(cookie)
                     THEN Raise(Unread([rec EXCEPT !.token = {}]), 500)
                     ELSE IF session = {}
                     THEN Respond(Unread(rec), 401, "")
                     ELSE [rec EXCEPT !.pc = "user_select",
                                      !.session = session]]
    /\ UNCHANGED <<now, db, tx, dbWriter, nextId, verified, challenges, settings>>

\* get_user_by_token: the SELECT of the owner; get_current_user_optional
\* returns; validate answers what needs no further SELECT.
get_user_by_token(r) ==
    /\ req[r].op = "validate" /\ req[r].pc = "user_select"
    /\ LET user == {u \in View(r).users :
                      \E s \in req[r].session : u.id = s.user_id}
           current_user == ApprovedUser(user)
           rec == [req[r] EXCEPT !.user = current_user]
       IN  req' = [req EXCEPT ![r] =
                     IF current_user = {} THEN Respond(Unread(rec), 401, "")
                     ELSE IF req[r].x_gk_app = "" THEN Respond(rec, 200, "")
                     ELSE IF current_user_is_admin(current_user)
                     THEN Respond(rec, 200, "admin")
                     ELSE [rec EXCEPT !.pc = "app_select"]]
    /\ UNCHANGED <<now, db, tx, dbWriter, nextId, verified, challenges, settings>>

\* An approved administrator with a live session: the AdminUser dependency.
AdminUser(a) ==
    /\ a \in db.users /\ a.is_admin /\ a.status = "approved"
    /\ \E s \in db.sessions : s.user_id = a.id /\ s.expires_at > now

\* POST /auth/signin/verify by the holder of a valid code, as one
\* transaction: the approved user gets a session.
sign_in(e) ==
    /\ dbWriter = NoWriter
    /\ Cardinality(db.sessions) < MaxSessions
    /\ \E u \in UserByEmail(db, Lower(e)) :
         /\ u.status = "approved"
         /\ db' = SessionCreate(db, nextId.session + 1, u.id, now)
    /\ nextId' = [nextId EXCEPT !.session = @ + 1]
    /\ UNCHANGED <<now, tx, dbWriter, req, verified, challenges, settings>>

\* PATCH /admin/users/{user_id} as one transaction; "None" leaves the field.
update_user(a, user_id, status, is_admin) ==
    /\ dbWriter = NoWriter
    /\ AdminUser(a)
    /\ user_id # a.id
    /\ \E u \in db.users :
         /\ u.id = user_id
         /\ db' = [db EXCEPT !.users = (@ \ {u}) \cup
                     {[u EXCEPT
                         !.status = IF status = "None" THEN @ ELSE status,
                         !.is_admin = IF is_admin = "None" THEN @
                                      ELSE is_admin = "True"]}]
    /\ UNCHANGED <<now, tx, dbWriter, req, nextId, verified, challenges, settings>>

\* DELETE /admin/users/{user_id} as one transaction; the rows that belong
\* to the user go with it (cascade="all, delete-orphan").
delete_user(a, user_id) ==
    /\ dbWriter = NoWriter
    /\ AdminUser(a)
    /\ user_id # a.id
    /\ \E u \in db.users :
         /\ u.id = user_id
         /\ db' = [db EXCEPT
                     !.users = @ \ {u},
                     !.sessions = {s \in @ : s.user_id # user_id},
                     !.creds = {c \in @ : c.user_id # user_id},
                     !.grants = {g \in @ : g.user_id # user_id}]
    /\ UNCHANGED <<now, tx, dbWriter, req, nextId, verified, challenges, settings>>

\* SessionService.cleanup_expired as one transaction.
cleanup_expired ==
    /\ dbWriter = NoWriter
    /\ \E s \in db.sessions : s.expires_at <= now
    /\ db' = [db EXCEPT !.sessions = {s \in @ : ~(s.expires_at <= now)}]
    /\ UNCHANGED <<now, tx, dbWriter, req, nextId, verified, challenges, settings>>

\* The seeded administrator.
Bob == [id |-> 2, email |-> "b@y.org", is_admin |-> TRUE,
        is_seeded |-> TRUE, status |-> "approved"]

UserStatus == {"pending", "approved", "rejected"}

InitSession ==
    /\ now = 0
    /\ db = [EmptyDb EXCEPT !.users = {Alice, Bob}]
    /\ tx = EmptyDb
    /\ dbWriter = NoWriter
    /\ req = [r \in {1} |-> Idle]
    /\ nextId = [session |-> 0, user |-> 2, challenge |-> 0, app |-> 0]
    /\ verified = {}
    /\ challenges = NoChallenges
    /\ settings = DefaultSettings

NextSession ==
    \/ \E c \in Cookies : validate(1, c, "")
    \/ get_user_by_token(1)
    \/ get_db(1)
    \/ \E e \in RawEmails : sign_in(e)
    \/ \E a \in db.users, u \in 1..2, st \in UserStatus \cup {"None"},
          ad \in {"None", "True", "False"} : update_user(a, u, st, ad)
    \/ \E a \in db.users, u \in 1..2 : delete_user(a, u)
    \/ cleanup_expired
    \/ Tick

SpecSession == InitSession /\ [][NextSession]_vars

\* ------------------------------------------------------- claims C1, C2
\* The step in which request r arrives at validate.
ArrivalStep(r) == req[r].pc = "idle" /\ req'[r].op = "validate"

\* C1: resolving a session token returns none in every state where
\* now >= expires_at of the session record, whether or not cleanup_expired
\* has removed the record.
C1_ExpiredResolvesToNone ==
    [][\A r \in DOMAIN req :
        ArrivalStep(r) =>
            \A s \in db.sessions :
                (s.token \in req'[r].token /\ now >= s.expires_at) =>
                    /\ req'[r].session = {}
                    /\ req'[r].pc = "return" /\ req'[r].status = 401
    ]_vars

\* C1 witness: a correctly signed cookie was answered 401 at the very
\* instant now = expires_at, with the record still in the table and its
\* owner approved.
C1_Witness ==
    \E r \in DOMAIN req :
        /\ req[r].op = "validate" /\ req[r].pc = "return"
        /\ req[r].status = 401 /\ req[r].session = {}
        /\ \E s \in db.sessions, u \in db.users :
             /\ s.token \in req[r].token /\ s.expires_at = now
             /\ u.id = s.user_id /\ u.status = "approved"

\* C2: get_current_user_optional returns none whenever the signed token is
\* invalid, the session is absent or expired, the owning identity no longer
\* exists or its status is not approved, also for a session created while
\* the identity was approved and set to pending or rejected afterwards.
C2_ResolveFailsClosed ==
    [][\A r \in DOMAIN req :
        /\ ArrivalStep(r) =>
             \/ /\ req'[r].pc = "return" /\ req'[r].status = 401
                /\ req'[r].user = {}
             \/ \E s \in db.sessions :
                  /\ req'[r].cookie = create_signed_token(s.token)
                  /\ s.expires_at > now
                  /\ req'[r].session = {s}
        /\ (req[r].op = "validate" /\ req[r].pc = "user_select"
            /\ req'[r].pc # "user_select") =>
             \/ /\ req'[r].pc = "return" /\ req'[r].status = 401
                /\ req'[r].user = {}
             \/ \E u \in db.users :
                  /\ \E s \in req[r].session : u.id = s.user_id
                  /\ u.status = "approved"
                  /\ req'[r].user = {u} /\ req'[r].status # 401
    ]_vars

\* C2 witness: a live session with a correctly signed cookie was answered
\* 401 because an administrator had set its owner to pending or rejected.
C2_Witness ==
    \E r \in DOMAIN req :
        /\ req[r].op = "validate" /\ req[r].pc = "return"
        /\ req[r].status = 401 /\ req[r].user = {}
        /\ \E s \in req[r].session, u \in db.users :
             /\ s \in db.sessions /\ s.expires_at > now
             /\ u.id = s.user_id /\ u.status \in {"pending", "rejected"}

\* -------------------------------------------------------- passkey service
\* Credential identifiers authenticators hand out.
CredIds == {"k1", "k2"}

\* What a client posts to a verify endpoint: the credential identifier, the
\* challenge inside clientDataJSON, the counter inside the authenticator
\* data, and whether signature, origin and relying-party id are those of
\* the holder of the credential's private key.
Assertions ==
    [credential_id : CredIds, challenge : 1..MaxChallenges,
     sign_count : 0..MaxCount, sig : BOOLEAN]

\* The assertions of fresh authenticators, whose counter reads 0.
FreshAssertions == {credential \in Assertions : credential.sign_count = 0}

\* webauthn.verify_authentication_response: the new counter, or the empty
\* set when the library raises.  The challenge is the expected one, the
\* signature verifies, and the counter is greater than the current one
\* unless both are zero.
verify_authentication_response(credential, expected_challenge, current) ==
    IF \/ credential.challenge # expected_challenge
       \/ ~credential.sig
       \/ /\ credential.sign_count > 0 \/ current > 0
          /\ credential.sign_count <= current
    THEN {}
    ELSE {credential.sign_count}

\* webauthn.verify_registration_response: the verified credential, or the
\* empty set when the library raises.
verify_registration_response(credential, expected_challenge) ==
    IF credential.challenge # expected_challenge \/ ~credential.sig
    THEN {}
    ELSE {[credential_id |-> credential.credential_id,
           sign_count |-> credential.sign_count]}

\* PasskeyService._get_credential_by_id: scalar_one_or_none raises when
\* several rows carry the identifier, which verify_authentication turns
\* into None.
get_credential_by_id(d, credential_id) ==
    LET rows == {c \in d.creds : c.credential_id = credential_id}
    IN  IF Cardinality(rows) = 1 THEN rows ELSE {}

\* The current counter verify_authentication passes to the library, always 0.
current_sign_count_Zero(passkey) == 0

\* credential_current_sign_count=passkey.sign_count
current_sign_count(passkey) == passkey.sign_count

\* A request record keeps of the posted credential what the handler has
\* read so far: challenge_from_client, then the identifier, then all of it.
IdlePasskey ==
    [op |-> "none", pc |-> "idle", challenge_from_client |-> 0,
     credential_id |-> "", credential |-> <<>>, challenge |-> 0,
     passkey |-> {}, user |-> 0, ok |-> FALSE, status |-> 0, detail |-> ""]

\* The details of the HTTPExceptions the passkey handlers raise.
ChallengeExpired == "Challenge expired or invalid. Please try again."

AuthenticationFailed == "Passkey authentication failed."

RegistrationFailed == "Failed to register passkey. Please try again."

NotApproved == "Account not approved."

\* HTTPException(status_code=status, detail=detail)
RaiseDetail(rec, status, detail) ==
    [Raise(rec, status) EXCEPT !.detail = detail]

\* A pop that leaves the entries in the dictionary.
pop_Keep(store, entries) == store

\* dict.pop(key, None) on a challenge dictionary: the entries under the key
\* leave it.
pop(store, entries) == store \ entries

PasskeyOps == {"passkey_signin_verify"}

PasskeyRoom ==
    Cardinality(db.sessions) + InFlight(PasskeyOps) < MaxSessions

\* An approved user with a live session: the CurrentUser dependency.
CurrentUser(u) ==
    /\ u \in db.users /\ u.status = "approved"
    /\ \E s \in db.sessions : s.user_id = u.id /\ s.expires_at > now

\* An assignment that empties the dictionary first.
store_challenge_Only(store, challenge) == {challenge}

\* _passkey_challenges[challenge_key] = challenge, the key being the
\* base64url text of the challenge.
store_challenge(store, challenge) == store \cup {challenge}

\* POST /auth/passkey/signin/options: a fresh challenge goes into
\* _passkey_challenges under its own value.
passkey_signin_options ==
    /\ nextId.challenge < MaxChallenges
    /\ nextId' = [nextId EXCEPT !.challenge = @ + 1]
    /\ challenges' = [challenges EXCEPT
                        !.signin = store_challenge(@, nextId.challenge + 1)]
    /\ UNCHANGED <<now, db, tx, dbWriter, req, verified, settings>>

\* An assignment that keeps what the dictionary held under the key.
setitem_Keep(store, user_id, challenge) ==
    store \cup {[user_id |-> user_id, challenge |-> challenge]}

\* _passkey_registration_challenges[user_id] = challenge: the value replaces
\* the one held under the key.
setitem(store, user_id, challenge) ==
    {e \in store : e.user_id # user_id}
    \cup {[user_id |-> user_id, challenge |-> challenge]}

\* POST /auth/passkey/register/options: a fresh challenge replaces the one
\* _passkey_registration_challenges holds for the user.
passkey_register_options(u) ==
    /\ CurrentUser(u)
    /\ nextId.challenge < MaxChallenges
    /\ nextId' = [nextId EXCEPT !.challenge = @ + 1]
    /\ challenges' =
         [challenges EXCEPT
            !.register = setitem(@, u.id, nextId.challenge + 1)]
    /\ UNCHANGED <<now, db, tx, dbWriter, req, verified, settings>>

\* POST /auth/passkey/signin/verify up to the verification: the challenge
\* named by the client is popped from _passkey_challenges and
\* verify_authentication looks the credential up.
passkey_signin_verify(r, credential) ==
    /\ Slot(r) /\ PasskeyRoom
    /\ LET rec == [IdlePasskey EXCEPT
                     !.op = "passkey_signin_verify",
                     !.challenge_from_client = credential.challenge]
           passkey == get_credential_by_id(View(r), credential.credential_id)
       IN  IF credential.challenge \notin challenges.signin
           THEN /\ req' = [req EXCEPT ![r] =
                             RaiseDetail(rec, 400, ChallengeExpired)]
                /\ UNCHANGED challenges
           ELSE /\ challenges' = [challenges EXCEPT
                     !.signin = pop(@, {credential.challenge})]
                /\ req' = [req EXCEPT ![r] =
                     LET popped == [rec EXCEPT
                            !.challenge = credential.challenge,
                            !.credential_id = credential.credential_id]
                     IN  IF passkey = {}
                         THEN RaiseDetail(popped, 400, AuthenticationFailed)
                         ELSE [popped EXCEPT !.pc = "pk_verify",
                                             !.credential = credential,
                                             !.passkey = passkey]]
    /\ UNCHANGED <<now, db, tx, dbWriter, nextId, verified, settings>>

\* PasskeyService.verify_authentication from the library call on, and the
\* rest of the handler: the counter is stored, the owner is selected, an
\* approved owner gets a session.
verify_authentication(r) ==
    /\ req[r].op = "passkey_signin_verify" /\ req[r].pc = "pk_verify"
    /\ LET passkey == CHOOSE c \in req[r].passkey : TRUE
           verification ==
               verify_authentication_response(req[r].credential,
                   req[r].challenge, current_sign_count(passkey))
           new_sign_count == CHOOSE n \in verification : TRUE
           row == {c \in View(r).creds : c.id = passkey.id}
           stored == [View(r) EXCEPT !.creds = (@ \ row) \cup
                        {[passkey EXCEPT !.sign_count = new_sign_count]}]
           user == {u \in stored.users : u.id = passkey.user_id}
           rec == [req[r] EXCEPT !.ok = TRUE]
       IN  IF verification = {} \/ row = {} \/ user = {}
           THEN /\ req' = [req EXCEPT ![r] =
                             RaiseDetail(@, 400, AuthenticationFailed)]
                /\ UNCHANGED <<db, tx, dbWriter, nextId>>
           ELSE IF \E u \in user : u.status # "approved"
           THEN /\ req' = [req EXCEPT ![r] =
                             RaiseDetail(rec, 403, NotApproved)]
                /\ IF new_sign_count = passkey.sign_count
                   THEN UNCHANGED <<db, tx, dbWriter>>
                   ELSE DbWrite(r, stored)
                /\ UNCHANGED nextId
           ELSE /\ DbWrite(r, SessionCreate(stored, nextId.session + 1,
                                            passkey.user_id, now))
                /\ nextId' = [nextId EXCEPT !.session = @ + 1]
                /\ req' = [req EXCEPT ![r] =
                             Return([rec EXCEPT !.user = passkey.user_id])]
    /\ UNCHANGED <<now, verified, challenges, settings>>

\* passkey_register_verify naming the check that failed.
RegistrationRefused_Cause(rec) ==
    RaiseDetail(rec, 400, IF rec.challenge_from_client # rec.challenge
                          THEN ChallengeExpired ELSE RegistrationFailed)

\* passkey_register_verify, "if not passkey": verify_registration_with_
\* challenge returned None from its "except Exception", whatever was raised.
RegistrationRefused(rec) == RaiseDetail(rec, 400, RegistrationFailed)

\* POST /auth/passkey/register/verify up to the first write: the user's
\* challenge is popped from _passkey_registration_challenges and
\* verify_registration_with_challenge calls the library.
passkey_register_verify(r, u, credential) ==
    /\ Slot(r)
    /\ CurrentUser(u)
    /\ Cardinality(db.creds) + InFlight({"passkey_register_verify"}) < MaxCreds
    /\ LET rec == [IdlePasskey EXCEPT !.op = "passkey_register_verify",
                                      !.user = u.id]
           challenge == {e \in challenges.register : e.user_id = u.id}
           verification ==
               UNION {verify_registration_response(credential, e.challenge)
                      : e \in challenge}
       IN  /\ challenges' = [challenges EXCEPT
                                !.register = pop(@, challenge)]
           /\ req' = [req EXCEPT ![r] =
                IF challenge = {}
                THEN RaiseDetail(rec, 400, ChallengeExpired)
                ELSE LET popped == [rec EXCEPT
                            !.challenge_from_client = credential.challenge,
                            !.credential_id = credential.credential_id,
                            !.credential = credential,
                            !.challenge =
                                (CHOOSE e \in challenge : TRUE).challenge]
                     IN  IF verification = {}
                         THEN RegistrationRefused(popped)
                         ELSE [popped EXCEPT !.pc = "reg_write"]]
    /\ UNCHANGED <<now, db, tx, dbWriter, nextId, verified, settings>>

\* verify_registration_with_challenge: db.add(passkey) and flush; the
\* handler returns.
verify_registration_with_challenge(r) ==
    /\ req[r].op = "passkey_register_verify" /\ req[r].pc = "reg_write"
    /\ LET d == View(r)
           passkey == [id |-> FreshId(d.creds), user_id |-> req[r].user,
                       credential_id |-> req[r].credential.credential_id,
                       sign_count |-> req[r].credential.sign_count]
       IN  DbWrite(r, [d EXCEPT !.creds = @ \cup {passkey}])
    /\ req' = [req EXCEPT ![r] = Return([@ EXCEPT !.ok = TRUE])]
    /\ UNCHANGED <<now, nextId, verified, challenges, settings>>

\* The passkey Alice registered earlier.
AliceKey == [id |-> 1, user_id |-> 1, credential_id |-> "k1", sign_count |-> 0]

InitPasskey ==
    /\ now = 0
    /\ \E st \in {"approved", "pending"} :
         db = [EmptyDb EXCEPT !.users = {[Alice EXCEPT !.status = st]},
                               !.creds = {AliceKey}]
    /\ tx = EmptyDb
    /\ dbWriter = NoWriter
    /\ req = [r \in Requests |-> Idle]
    /\ nextId = [session |-> 0, user |-> 1, challenge |-> 0, app |-> 0]
    /\ verified = {}
    /\ challenges = NoChallenges
    /\ settings = DefaultSettings

NextPasskey ==
    \/ passkey_signin_options
    \/ \E u \in db.users : passkey_register_options(u)
    \/ \E r \in Requests, c \in Assertions : passkey_signin_verify(r, c)
    \/ \E r \in Requests : verify_authentication(r)
    \/ \E r \in Requests, u \in db.users, c \in Assertions :
         passkey_register_verify(r, u, c)
    \/ \E r \in Requests : verify_registration_with_challenge(r)
    \/ \E r \in Requests : get_db(r)

SpecPasskey == InitPasskey /\ [][NextPasskey]_vars

\* ------------------------------------------------------- claims C8, C9
\* C8 as stated: verify_authentication returns failure for every assertion
\* whose reported counter is less than or equal to the counter stored for
\* the located credential, whatever its signature and challenge.
C8_StaleCounterFails ==
    \A r \in DOMAIN req :
        (req[r].op = "passkey_signin_verify" /\ req[r].ok) =>
            \A p \in req[r].passkey :
                req[r].credential.sign_count > p.sign_count

\* C8 amended: verify_authentication returns failure for every assertion
\* whose reported counter is less than or equal to the counter it read for
\* the located credential, unless both counters are zero.
C8_StaleCounterFailsUnlessBothZero ==
    \A r \in DOMAIN req :
        (req[r].op = "passkey_signin_verify" /\ req[r].ok) =>
            \A p \in req[r].passkey :
                \/ req[r].credential.sign_count > p.sign_count
                \/ req[r].credential.sign_count = 0 /\ p.sign_count = 0

\* C8 witness: an assertion with a valid signature over a live challenge
\* was refused because its counter did not exceed a stored counter above
\* zero.
C8_Witness ==
    \E r \in DOMAIN req :
        /\ req[r].op = "passkey_signin_verify" /\ req[r].pc = "raise"
        /\ req[r].status = 400 /\ ~req[r].ok
        /\ req[r].passkey # {}
        /\ req[r].credential.sig
        /\ req[r].challenge = req[r].credential.challenge
        /\ \E p \in req[r].passkey :
             /\ p.sign_count > 0
             /\ req[r].credential.sign_count <= p.sign_count

\* C9: the stored signature counter of a credential never decreases over
\* any sequence of registration and authentication ceremonies.
C9_SignCountNeverDecreases ==
    [][\A c \in db.creds, n \in db'.creds :
          n.id = c.id => n.sign_count >= c.sign_count]_vars

\* ------------------------------------------------------ access decision
\* The slugs a proxy may name in X-GK-App.
Slugs == {"wiki", "blog"}

\* UserAppAccess.role; "" is no role.
Roles == {"", "editor"}

\* validate: select(App).where(App.slug == x_gk_app); slug is unique.
AppBySlug_Any(d, slug) == d.apps

AppBySlug(d, slug) == {a \in d.apps : a.slug = slug}

\* validate, "if not app", answering 200 whatever the setting.
DefaultPolicy_AlwaysAllow(rec) == Respond(rec, 200, "")

\* validate, "if not app": settings.default_app_access decides.
DefaultPolicy(rec) ==
    IF settings.default_app_access = "deny" THEN Respond(rec, 403, "")
    ELSE Respond(rec, 200, "")

\* select(UserAppAccess) of any app of the user.
AccessOf_AnyApp(d, current_user, app) ==
    {g \in d.grants : \E u \in current_user : g.user_id = u.id}

\* validate: select(UserAppAccess).where(user_id == current_user.id,
\* app_id == app.id); (user_id, app_id) is the primary key.
AccessOf(d, current_user, app) ==
    {g \in d.grants : /\ \E u \in current_user : g.user_id = u.id
                      /\ \E a \in app : g.app_id = a.id}

\* validate, "if not access", falling back to the default policy.
NoAccess_DefaultPolicy(rec) == DefaultPolicy(rec)

\* validate, "if not access": 403.
NoAccess(rec) == Respond(rec, 403, "")

\* validate with X-Auth-Role left out.
RoleHeader_None(access) == ""

\* validate: headers["X-Auth-Role"] = access.role "if access.role".
RoleHeader(access) == (CHOOSE g \in access : TRUE).role

\* validate: the SELECT of the app, and the default policy for a slug that
\* is not registered.
validate_app(r) ==
    /\ req[r].op = "validate" /\ req[r].pc = "app_select"
    /\ LET app == AppBySlug(View(r), req[r].x_gk_app)
       IN  req' = [req EXCEPT ![r] =
                     IF app = {} THEN DefaultPolicy(@)
                     ELSE [@ EXCEPT !.pc = "access_select", !.app = app]]
    /\ UNCHANGED <<now, db, tx, dbWriter, nextId, verified, challenges, settings>>

\* validate: the SELECT of the grant of (current_user, app).
validate_access(r) ==
    /\ req[r].op = "validate" /\ req[r].pc = "access_select"
    /\ LET access == AccessOf(View(r), req[r].user, req[r].app)
       IN  req' = [req EXCEPT ![r] =
                     IF access = {} THEN NoAccess(@)
                     ELSE Respond([@ EXCEPT !.access = access], 200,
                                  RoleHeader(access))]
    /\ UNCHANGED <<now, db, tx, dbWriter, nextId, verified, challenges, settings>>

\* POST /admin/apps as one transaction.
create_app(a, slug) ==
    /\ dbWriter = NoWriter
    /\ AdminUser(a)
    /\ nextId.app < MaxApps
    /\ ~\E existing \in db.apps : existing.slug = slug
    /\ db' = [db EXCEPT !.apps = @ \cup {[id |-> nextId.app + 1, slug |-> slug]}]
    /\ nextId' = [nextId EXCEPT !.app = @ + 1]
    /\ UNCHANGED <<now, tx, dbWriter, req, verified, challenges, settings>>

\* DELETE /admin/apps/{slug} as one transaction; the grants of the app go
\* with it (cascade="all, delete-orphan").
delete_app(a, slug) ==
    /\ dbWriter = NoWriter
    /\ AdminUser(a)
    /\ \E app \in db.apps :
         /\ app.slug = slug
         /\ db' = [db EXCEPT !.apps = @ \ {app},
                             !.grants = {g \in @ : g.app_id # app.id}]
    /\ UNCHANGED <<now, tx, dbWriter, req, nextId, verified, challenges, settings>>

\* POST /admin/apps/{slug}/grant as one transaction: a new grant, or the
\* new role on the existing one.
grant_app_access(a, slug, email, role) ==
    /\ dbWriter = NoWriter
    /\ AdminUser(a)
    /\ \E app \in db.apps, user \in UserByEmail(db, Lower(email)) :
         /\ app.slug = slug
         /\ LET existing == {g \in db.grants :
                               g.user_id = user.id /\ g.app_id = app.id}
            IN  /\ \A g \in existing : g.role # role
                /\ db' = [db EXCEPT !.grants = (@ \ existing) \cup
                            {[user_id |-> user.id, app_id |-> app.id,
                              role |-> role]}]
    /\ UNCHANGED <<now, tx, dbWriter, req, nextId, verified, challenges, settings>>

\* DELETE /admin/apps/{slug}/revoke as one transaction.
revoke_app_access(a, slug, email) ==
    /\ dbWriter = NoWriter
    /\ AdminUser(a)
    /\ \E app \in db.apps, user \in UserByEmail(db, Lower(email)),
          access \in db.grants :
         /\ app.slug = slug
         /\ access.user_id = user.id /\ access.app_id = app.id
         /\ db' = [db EXCEPT !.grants = @ \ {access}]
    /\ UNCHANGED <<now, tx, dbWriter, req, nextId, verified, challenges, settings>>

InitValidate ==
    /\ now = 0
    /\ db = [EmptyDb EXCEPT !.users = {Alice, Bob}]
    /\ tx = EmptyDb
    /\ dbWriter = NoWriter
    /\ req = [r \in {1} |-> Idle]
    /\ nextId = [session |-> 0, user |-> 2, challenge |-> 0, app |-> 0]
    /\ verified = {}
    /\ challenges = NoChallenges
    /\ settings \in {[default_app_access |-> p] : p \in {"allow", "deny"}}

NextValidate ==
    \/ \E c \in Cookies, x \in Slugs \cup {""} : validate(1, c, x)
    \/ get_user_by_token(1)
    \/ validate_app(1)
    \/ validate_access(1)
    \/ get_db(1)
    \/ \E e \in RawEmails : sign_in(e)
    \/ \E a \in db.users, x \in Slugs : create_app(a, x)
    \/ \E a \in db.users, x \in Slugs : delete_app(a, x)
    \/ \E a \in db.users, x \in Slugs, e \in RawEmails, role \in Roles :
         grant_app_access(a, x, e, role)
    \/ \E a \in db.users, x \in Slugs, e \in RawEmails :
         revoke_app_access(a, x, e)

SpecValidate == InitValidate /\ [][NextValidate]_vars

\* ------------------------------------------------------------- claim C10
\* C10: for an authenticated identity with the admin flag and a non-empty
\* target slug, validate answers 200 with the role "admin", for registered
\* and unregistered slugs, under either default policy, with or without a
\* grant; the request never gets to the app lookup.
C10_AdminAlwaysAllowed ==
    \A r \in DOMAIN req :
        (/\ req[r].op = "validate" /\ req[r].x_gk_app # ""
         /\ \E u \in req[r].user : u.is_admin) =>
            /\ req[r].pc = "return"
            /\ req[r].status = 200 /\ req[r].role = "admin"
            /\ req[r].app = {}

\* C10 witness: an administrator was allowed on a slug that is not
\* registered while the default policy is deny.
C10_Witness ==
    \E r \in DOMAIN req :
        /\ req[r].op = "validate" /\ req[r].pc = "return"
        /\ req[r].status = 200 /\ req[r].role = "admin"
        /\ \E u \in req[r].user : u.is_admin
        /\ ~\E a \in db.apps : a.slug = req[r].x_gk_app
        /\ settings.default_app_access = "deny"

\* ------------------------------------------------------------- claim C11
\* C11: when the target slug matches no registered app, and the identity
\* is not an administrator, the app lookup of validate ends the request
\* with the default policy alone: 200 with the identity and no role under
\* "allow", 403 under "deny", whatever grants the identity holds.
C11_UnregisteredFollowsPolicy ==
    [][\A r \in DOMAIN req :
         (/\ req[r].op = "validate" /\ req[r].pc = "app_select"
          /\ req'[r] # req[r]
          /\ ~\E a \in View(r).apps : a.slug = req[r].x_gk_app) =>
            /\ req'[r].pc = "return" /\ req'[r].access = {}
            /\ settings.default_app_access = "allow" =>
                  /\ req'[r].status = 200 /\ req'[r].role = ""
                  /\ \E u \in req[r].user : req'[r].x_auth_user = u.email
            /\ settings.default_app_access = "deny" =>
                  req'[r].status = 403]_vars

\* C11 witness: under "allow", an identity that holds a grant on a
\* registered app was allowed, without a role, on a slug that is not
\* registered.
C11_Witness ==
    \E r \in DOMAIN req :
        /\ req[r].op = "validate" /\ req[r].pc = "return"
        /\ req[r].x_gk_app # "" /\ req[r].app = {}
        /\ req[r].status = 200 /\ req[r].role = ""
        /\ settings.default_app_access = "allow"
        /\ ~\E a \in db.apps : a.slug = req[r].x_gk_app
        /\ \E u \in req[r].user, g \in db.grants, a \in db.apps :
             ~u.is_admin /\ g.user_id = u.id /\ g.app_id = a.id

\* ------------------------------------------------------------- claim C12
\* C12: when the target slug names a registered app, the app lookup of
\* validate decides nothing and goes on to the grant lookup; when the
\* identity holds no grant on that app the grant lookup answers 403, under
\* "allow" as under "deny": the default policy is not consulted.
C12_RegisteredWithoutGrantDenied ==
    [][\A r \in DOMAIN req :
         /\ (/\ req[r].op = "validate" /\ req[r].pc = "app_select"
             /\ req'[r] # req[r]
             /\ \E a \in View(r).apps : a.slug = req[r].x_gk_app) =>
               /\ req'[r].pc = "access_select" /\ req'[r].status = 0
               /\ req'[r].app = {a \in View(r).apps :
                                   a.slug = req[r].x_gk_app}
         /\ (/\ req[r].op = "validate" /\ req[r].pc = "access_select"
             /\ req'[r] # req[r]
             /\ ~\E g \in View(r).grants, u \in req[r].user, a \in req[r].app :
                   g.user_id = u.id /\ g.app_id = a.id) =>
               /\ req'[r].pc = "return" /\ req'[r].status = 403
               /\ req'[r].x_auth_user = "" /\ req'[r].role = ""]_vars

\* C12 witness: under "allow", an identity without a grant was refused on
\* an app that is registered.
C12_Witness ==
    \E r \in DOMAIN req :
        /\ req[r].op = "validate" /\ req[r].pc = "return"
        /\ req[r].status = 403 /\ req[r].access = {}
        /\ settings.default_app_access = "allow"
        /\ req[r].app # {} /\ req[r].app \subseteq db.apps
        /\ \A a \in req[r].app : a.slug = req[r].x_gk_app

\* ------------------------------------------------------------- claim C13
\* C13: when the grant lookup of validate finds the grant of the identity
\* on the registered app, the answer is 200 with the identity's email, and
\* the role header is the grant's role, or absent ("") when the grant has
\* no role.
C13_GrantAllowsWithRole ==
    [][\A r \in DOMAIN req :
         (/\ req[r].op = "validate" /\ req[r].pc = "access_select"
          /\ req'[r] # req[r]) =>
            \A g \in View(r).grants :
                (/\ \E u \in req[r].user : g.user_id = u.id
                 /\ \E a \in req[r].app : g.app_id = a.id) =>
                    /\ req'[r].pc = "return" /\ req'[r].status = 200
                    /\ req'[r].role = g.role
                    /\ \E u \in req[r].user : req'[r].x_auth_user = u.email]_vars

\* C13 witness: a non-administrator was allowed with the role of the grant
\* it holds on the registered app.
C13_Witness ==
    \E r \in DOMAIN req :
        /\ req[r].op = "validate" /\ req[r].pc = "return"
        /\ req[r].status = 200 /\ req[r].role = "editor"
        /\ \E u \in req[r].user : ~u.is_admin
        /\ \E g \in req[r].access : g.role = "editor" /\ g \in db.grants
        /\ req[r].app # {} /\ req[r].app \subseteq db.apps

\* ------------------------------------------------------------- claim C15
\* C15: a validate request without target app whose cookie resolved to an
\* approved identity, administrator or not, is answered 200 with the
\* email of the identity and no role header, without any lookup of apps
\* or grants and whatever the default policy.
C15_NoAppIsIdentityCheck ==
    \A r \in DOMAIN req :
        (/\ req[r].op = "validate" /\ req[r].x_gk_app = ""
         /\ req[r].user # {}) =>
            /\ req[r].pc = "return" /\ req[r].status = 200
            /\ \E u \in req[r].user : req[r].x_auth_user = u.email
            /\ req[r].role = ""
            /\ req[r].app = {} /\ req[r].access = {}

\* C15 witness: under "deny", with an app registered and no grant at all, a
\* non-administrator was allowed without target app; its email is the
\* X-Auth-User header.
C15_Witness ==
    \E r \in DOMAIN req :
        /\ req[r].op = "validate" /\ req[r].pc = "return"
        /\ req[r].x_gk_app = "" /\ req[r].status = 200
        /\ req[r].x_auth_user = "a@x.com" /\ req[r].role = ""
        /\ \E u \in req[r].user : ~u.is_admin
        /\ settings.default_app_access = "deny"
        /\ db.apps # {} /\ db.grants = {}

\* ------------------------------------------------------------- claim C16
\* C16: under the default policy "deny", when validate ends the request of
\* a non-administrator for slug s while the store holds no grant of that
\* identity on an app with slug s, the answer is 403, whether or not s is
\* registered.
C16_DenyPolicyNeedsGrant ==
    [][\A r \in DOMAIN req :
         (/\ settings.default_app_access = "deny"
          /\ req[r].op = "validate"
          /\ req[r].pc \in {"app_select", "access_select"}
          /\ req'[r].pc = "return"
          /\ ~\E g \in View(r).grants, u \in req[r].user, a \in View(r).apps :
                /\ a.slug = req[r].x_gk_app
                /\ g.user_id = u.id /\ g.app_id = a.id) =>
            /\ req'[r].status = 403
            /\ req'[r].x_auth_user = "" /\ req'[r].role = ""]_vars

\* C16 witness: under "deny", a non-administrator that holds a grant on
\* another app was refused on a slug that is not registered.
C16_Witness ==
    \E r \in DOMAIN req :
        /\ req[r].op = "validate" /\ req[r].pc = "return"
        /\ req[r].status = 403 /\ req[r].x_gk_app # ""
        /\ settings.default_app_access = "deny"
        /\ ~\E a \in db.apps : a.slug = req[r].x_gk_app
        /\ \E u \in req[r].user, g \in db.grants :
             ~u.is_admin /\ g.user_id = u.id

\* --------------------------------------------------------- token signer
\* A call of the signer and of the verifier on what a client made of the
\* signed token.
IdleSigner ==
    [op |-> "none", pc |-> "idle", token |-> <<>>, signed_token |-> <<>>,
     origin |-> "none", result |-> {}]

\* set_session_cookie: signed_token = create_signed_token(token).
sign(r, token) ==
    /\ req[r].pc = "idle"
    /\ req' = [req EXCEPT ![r] =
                 [IdleSigner EXCEPT !.op = "verify_signed_token",
                                    !.pc = "cookie", !.token = token,
                                    !.signed_token = create_signed_token(token),
                                    !.origin = "signed"]]
    /\ UNCHANGED <<now, db, tx, dbWriter, nextId, verified, challenges, settings>>

\* The client replaces the character at position i of its cookie by c.
tamper(r, i, c) ==
    /\ req[r].pc = "cookie" /\ req[r].origin = "signed"
    /\ i \in 1..Len(req[r].signed_token)
    /\ c # req[r].signed_token[i]
    /\ req' = [req EXCEPT ![r].signed_token = [@ EXCEPT ![i] = c],
                          ![r].origin = "tampered"]
    /\ UNCHANGED <<now, db, tx, dbWriter, nextId, verified, challenges, settings>>

\* The client presents a cookie that no signer made: a string without
\* separator.
present(r, cookie) ==
    /\ req[r].pc = "idle"
    /\ \A i \in 1..Len(cookie) : cookie[i] # "."
    /\ req' = [req EXCEPT ![r] =
                 [IdleSigner EXCEPT !.op = "verify_signed_token",
                                    !.pc = "cookie", !.signed_token = cookie,
                                    !.origin = "unsigned"]]
    /\ UNCHANGED <<now, db, tx, dbWriter, nextId, verified, challenges, settings>>

\* token = verify_signed_token(session): the call returns or raises.
verify_cookie(r) ==
    /\ req[r].pc = "cookie"
    /\ req' = [req EXCEPT ![r] =
                 IF verify_signed_token_raises(req[r].signed_token)
                 THEN [@ EXCEPT !.pc = "raise"]
                 ELSE [@ EXCEPT !.pc = "return",
                                !.result = verify_signed_token(req[r].signed_token)]]
    /\ UNCHANGED <<now, db, tx, dbWriter, nextId, verified, challenges, settings>>

InitSigner ==
    /\ now = 0
    /\ db = EmptyDb
    /\ tx = EmptyDb
    /\ dbWriter = NoWriter
    /\ req = [r \in {1} |-> IdleSigner]
    /\ nextId = [session |-> 0, user |-> 0, challenge |-> 0, app |-> 0]
    /\ verified = {}
    /\ challenges = NoChallenges
    /\ settings = DefaultSettings

NextSigner ==
    \/ \E t \in Tokens : sign(1, t)
    \/ \E i \in 1..(MaxTokenLen + 1 + SigLen), c \in Chars : tamper(1, i, c)
    \/ \E s \in Tokens : present(1, s)
    \/ verify_cookie(1)

SpecSigner == InitSigner /\ [][NextSigner]_vars

\* ------------------------------------------------------------- claim C17
\* C17: for every token t, also the empty one, one that contains the
\* separator and one with a character that is not ASCII,
\* verify_signed_token(create_signed_token(t)) returns t and does not
\* raise.
C17_RoundTrip ==
    \A r \in DOMAIN req :
        (/\ req[r].op = "verify_signed_token" /\ req[r].origin = "signed"
         /\ req[r].pc \in {"return", "raise"}) =>
            req[r].pc = "return" /\ req[r].result = {req[r].token}

\* C17 witness: the verifier returned a token that contains the separator
\* from its signed token.
C17_Witness ==
    \E r \in DOMAIN req :
        /\ req[r].op = "verify_signed_token" /\ req[r].origin = "signed"
        /\ req[r].pc = "return" /\ req[r].result = {req[r].token}
        /\ \E i \in 1..Len(req[r].token) : req[r].token[i] = "."

\* ------------------------------------------------------------- claim C18
\* C18: for a signed token with one character replaced by a different one,
\* and for an input without separator, verify_signed_token returns None
\* and does not raise.
C18_MutationInvalid ==
    \A r \in DOMAIN req :
        (/\ req[r].op = "verify_signed_token"
         /\ req[r].origin \in {"tampered", "unsigned"}
         /\ req[r].pc \in {"return", "raise"}) =>
            req[r].pc = "return" /\ req[r].result = {}

\* ------------------------------------------------------------- claim C14
\* C14: a validate request that ends without verified identity (no cookie,
\* a cookie whose signature does not verify, a session that does not
\* resolve to an approved identity) ends with 401, whatever the target
\* app, the registry, the grants and the default policy; and a request
\* that ends with 200 or 403 has a verified identity.
C14_UnverifiedIsUnauthorized ==
    \A r \in DOMAIN req :
        (req[r].op = "validate" /\ req[r].pc \in {"return", "raise"}) =>
            /\ req[r].user = {} => req[r].status = 401
            /\ req[r].status \in {200, 403} =>
                 \E u \in req[r].user, s \in req[r].session :
                    /\ u.id = s.user_id /\ u.status = "approved"
                    /\ req[r].cookie = create_signed_token(s.token)

\* ------------------------------------------------------------- claim C19
\* validate for the approved identity current_user and the slug x_gk_app,
\* run on the store d with no step of another request in between: the
\* record of the answer.
Decide(d, current_user, x_gk_app) ==
    LET rec == [IdleGate EXCEPT !.op = "validate", !.x_gk_app = x_gk_app,
                                !.user = current_user]
        app == AppBySlug(d, x_gk_app)
        access == AccessOf(d, current_user, app)
    IN  IF current_user = {} THEN Respond(rec, 401, "")
        ELSE IF x_gk_app = "" THEN Respond(rec, 200, "")
        ELSE IF current_user_is_admin(current_user)
        THEN Respond(rec, 200, "admin")
        ELSE IF app = {} THEN DefaultPolicy(rec)
        ELSE IF access = {} THEN NoAccess([rec EXCEPT !.app = app])
        ELSE Respond([rec EXCEPT !.app = app, !.access = access], 200,
                     RoleHeader(access))

\* What a proxy sees of an answer.
Answer(rec) == <<rec.status, rec.x_auth_user, rec.role>>

\* C19: right after an administrator has granted the approved
\* non-administrator u the role r on the registered app a, validate for
\* (u, a) answers 200 with the role r; right after the administrator has
\* revoked the grant, validate for (u, a) answers 403, under either
\* default policy.  The answer of a validate request whose two lookups see
\* the same registry is the one of Decide.
C19_GrantThenRevoke ==
    [][/\ db'.grants # db.grants =>
            \A a \in db.users, x \in Slugs, e \in RawEmails :
              LET u == {v \in UserByEmail(db, Lower(e)) :
                          ~v.is_admin /\ v.status = "approved"}
              IN  u # {} =>
                    /\ \A role \in Roles :
                         grant_app_access(a, x, e, role) =>
                           Answer(Decide(db', u, x)) = <<200, Lower(e), role>>
                    /\ revoke_app_access(a, x, e) =>
                         Answer(Decide(db', u, x)) = <<403, "", "">>
       /\ \A r \in DOMAIN req :
            (/\ req[r].op = "validate" /\ req[r].pc = "access_select"
             /\ req'[r].pc = "return"
             /\ req[r].app = AppBySlug(View(r), req[r].x_gk_app)) =>
               Answer(req'[r]) =
                 Answer(Decide(View(r), req[r].user, req[r].x_gk_app))]_vars

\* C19 witness: validate answered 200 with the role editor to a
\* non-administrator on a registered app, and the grant has been revoked
\* since, the app still being registered.
C19_Witness ==
    \E r \in DOMAIN req :
        /\ req[r].op = "validate" /\ req[r].pc = "return"
        /\ req[r].status = 200 /\ req[r].role = "editor"
        /\ req[r].app # {} /\ req[r].app \subseteq db.apps
        /\ \E u \in req[r].user : ~u.is_admin
        /\ req[r].access # {}
        /\ AccessOf(db, req[r].user, req[r].app) = {}

\* ----------------------------------------------------------- registration
\* get_current_user_optional on the store d at time t, where
\* verify_signed_token returns: the approved owner of the live session of
\* the cookie, or None as the empty set.
get_current_user_optional(d, session, t) ==
    LET token == IF session = <<>> THEN {}
                 ELSE {k \in verify_signed_token(session) : k # <<>>}
        found == UNION {get_by_token(d, k, t) : k \in token}
    IN  ApprovedUser({u \in d.users : \E s \in found : u.id = s.user_id})

\* A deployment without users: registration and the resolution of the
\* cookies it hands out, one request at a time.
InitRegister ==
    /\ now = 0
    /\ db = EmptyDb
    /\ tx = EmptyDb
    /\ dbWriter = NoWriter
    /\ req = [r \in {1} |-> Idle]
    /\ nextId = [session |-> 0, user |-> 0, challenge |-> 0, app |-> 0]
    /\ verified = {}
    /\ challenges = NoChallenges
    /\ settings = DefaultSettings

NextRegister ==
    \/ \E e \in RawEmails : register(1, e)
    \/ invalidate_previous(1)
    \/ create_and_send(1)
    \/ \E e \in RawEmails, c \in Codes : register_verify(1, e, c)
    \/ register_verify_finish(1)
    \/ \E c \in Cookies : validate(1, c, "")
    \/ get_user_by_token(1)
    \/ get_db(1)
    \/ Tick

SpecRegister == InitRegister /\ [][NextRegister]_vars

\* The step in which register_verify, its code verified and no identity
\* found for the email, returns.
RegisteredStep(r) ==
    /\ req[r].op = "register_verify" /\ req[r].pc = "v_write"
    /\ req'[r].pc = "return"

\* The step in which the response of a successful register_verify leaves.
RespondedStep(r) ==
    /\ req[r].op = "register_verify" /\ req[r].pc = "return"
    /\ req'[r].pc = "idle"

\* ------------------------------------------------------------- claim C20
\* C20 as stated: for an email without identity, register/verify with the
\* delivered code answers with a session cookie, and once the response
\* has left, resolving that cookie before the session expires gives the
\* identity of that email.
C20_RegistrationIssuesSession ==
    [][\A r \in DOMAIN req :
         /\ RegisteredStep(r) => req'[r].cookie # <<>>
         /\ RespondedStep(r) =>
              \A s \in db'.sessions :
                  (req[r].cookie = create_signed_token(s.token)
                   /\ s.expires_at > now) =>
                     \E u \in get_current_user_optional(db', req[r].cookie, now) :
                         u.email = req[r].email]_vars

\* C20, amended: the same for an email whose domain is one of the accepted
\* domains.
C20_AcceptedDomainRegistrationIssuesSession ==
    [][\A r \in DOMAIN req :
         /\ (RegisteredStep(r) /\ DomainOf(req[r].email) \in AcceptedDomains) =>
              /\ req'[r].cookie # <<>> /\ req'[r].status = 200
              /\ \E s \in View(r)'.sessions, u \in View(r)'.users :
                   /\ req'[r].cookie = create_signed_token(s.token)
                   /\ s.user_id = u.id /\ u.email = req[r].email
                   /\ u.status = "approved"
         /\ (RespondedStep(r) /\ DomainOf(req[r].email) \in AcceptedDomains) =>
              \E s \in db'.sessions :
                  /\ req[r].cookie = create_signed_token(s.token)
                  /\ s.expires_at > now =>
                       \E u \in get_current_user_optional(db', req[r].cookie, now) :
                           u.email = req[r].email]_vars

\* C20 witness: in a deployment that started without users, validate
\* resolved a session cookie to the identity a@x.com: the email was
\* registered, its code verified, the cookie issued and presented.
C20_Witness ==
    \E r \in DOMAIN req :
        /\ req[r].op = "validate" /\ req[r].pc = "return"
        /\ req[r].status = 200 /\ req[r].x_auth_user = "a@x.com"
        /\ \E s \in db.sessions, u \in db.users :
             /\ req[r].cookie = create_signed_token(s.token)
             /\ s.user_id = u.id /\ u.email = "a@x.com"

\* ----------------------------------------------------------------- grants
\* INSERT of a user_app_access row: (user_id, app_id) is the primary key,
\* so a second row for the pair is an IntegrityError; the empty set stands
\* for the error, else the store with the row.
InsertAccess(d, access) ==
    IF \E g \in d.grants :
           g.user_id = access.user_id /\ g.app_id = access.app_id
    THEN {}
    ELSE {[d EXCEPT !.grants = @ \cup {access}]}

\* POST /admin/apps/bulk-grant as one transaction: every pair of the
\* request that has no grant gets one with the role of the request, a pair
\* that has a grant is left as it is.
bulk_grant_access(a, emails, app_slugs, role) ==
    /\ dbWriter = NoWriter
    /\ AdminUser(a)
    /\ emails # {} /\ app_slugs # {}
    /\ \A e \in emails : UserByEmail(db, Lower(e)) # {}
    /\ \A x \in app_slugs : AppBySlug(db, x) # {}
    /\ LET pairs == {[user_id |-> user.id, app_id |-> app.id, role |-> role] :
                       user \in UNION {UserByEmail(db, Lower(e)) : e \in emails},
                       app \in UNION {AppBySlug(db, x) : x \in app_slugs}}
           created == {p \in pairs : AccessOf(db, {[id |-> p.user_id]},
                                              {[id |-> p.app_id]}) = {}}
       IN  db' = [db EXCEPT !.grants = @ \cup created]
    /\ UNCHANGED <<now, tx, dbWriter, req, nextId, verified, challenges, settings>>

\* POST /auth/apps/{slug}/request-access as one transaction.
request_app_access(u, slug) ==
    /\ dbWriter = NoWriter
    /\ CurrentUser(u)
    /\ Cardinality(db.requests) < MaxAccessRequests
    /\ \E app \in AppBySlug(db, slug) :
         /\ AccessOf(db, {u}, {app}) = {}
         /\ ~\E q \in db.requests : /\ q.user_id = u.id /\ q.app_id = app.id
                                    /\ q.status = "pending"
         /\ db' = [db EXCEPT !.requests = @ \cup
                     {[id |-> FreshId(db.requests), user_id |-> u.id,
                       app_id |-> app.id, status |-> "pending"]}]
    /\ UNCHANGED <<now, tx, dbWriter, req, nextId, verified, challenges, settings>>

\* approve_access_request from "Update request status" on: the request
\* becomes approved and UserAppAccess(user_id, app_id, role) is added and
\* flushed; the store that results, none when the INSERT is refused.
ApprovedAndGranted(d, app, q, user, role) ==
    InsertAccess([d EXCEPT !.requests = (@ \ {q}) \cup
                             {[q EXCEPT !.status = "approved"]}],
                 [user_id |-> user.id, app_id |-> app.id, role |-> role])

\* POST /admin/apps/{slug}/requests/{request_id}/approve as one
\* transaction: the request becomes approved and a grant is inserted
\* without a look at the grants; when the INSERT fails the transaction is
\* rolled back and nothing has changed.
approve_access_request(a, slug, request_id, role) ==
    /\ dbWriter = NoWriter
    /\ AdminUser(a)
    /\ \E app \in AppBySlug(db, slug), q \in db.requests, user \in db.users :
         /\ q.id = request_id /\ q.app_id = app.id /\ q.user_id = user.id
         /\ q.status = "pending"
         /\ \E d \in ApprovedAndGranted(db, app, q, user, role) : db' = d
    /\ UNCHANGED <<now, tx, dbWriter, req, nextId, verified, challenges, settings>>

\* Alice and the administrator Bob are signed in.
InitGrants ==
    /\ now = 0
    /\ db = [EmptyDb EXCEPT
               !.users = {Alice, Bob},
               !.sessions = {NewSession(1, Alice.id, 0),
                             NewSession(2, Bob.id, 0)}]
    /\ tx = EmptyDb
    /\ dbWriter = NoWriter
    /\ req = [r \in {1} |-> Idle]
    /\ nextId = [session |-> 2, user |-> 2, challenge |-> 0, app |-> 0]
    /\ verified = {}
    /\ challenges = NoChallenges
    /\ settings = DefaultSettings

NextGrants ==
    \/ \E a \in db.users, x \in Slugs : create_app(a, x)
    \/ \E a \in db.users, x \in Slugs : delete_app(a, x)
    \/ \E a \in db.users, x \in Slugs, e \in RawEmails, role \in Roles :
         grant_app_access(a, x, e, role)
    \/ \E a \in db.users, x \in Slugs, e \in RawEmails :
         revoke_app_access(a, x, e)
    \/ \E a \in db.users, emails \in SUBSET RawEmails,
          app_slugs \in SUBSET Slugs, role \in Roles :
         bulk_grant_access(a, emails, app_slugs, role)
    \/ \E u \in db.users, x \in Slugs : request_app_access(u, x)
    \/ \E a \in db.users, x \in Slugs, id \in 1..MaxAccessRequests,
          role \in Roles : approve_access_request(a, x, id, role)

SpecGrants == InitGrants /\ [][NextGrants]_vars

\* ------------------------------------------------------------- claim C21
\* C21: after every step there is at most one grant per (identity, app),
\* and a grant made through grant_app_access or bulk_grant_access to an
\* identity that holds a grant on the app leaves the one grant of the pair
\* with the role of the request.
C21_OneGrantPerPairRoleUpdated ==
    [][/\ \A g, h \in db'.grants :
            (g.user_id = h.user_id /\ g.app_id = h.app_id) => g = h
       /\ \A a \in db.users, role \in Roles :
            /\ \A x \in Slugs, e \in RawEmails :
                 grant_app_access(a, x, e, role) =>
                   \A g \in AccessOf(db', UserByEmail(db, Lower(e)),
                                     AppBySlug(db, x)) : g.role = role
            /\ \A emails \in SUBSET RawEmails, app_slugs \in SUBSET Slugs :
                 bulk_grant_access(a, emails, app_slugs, role) =>
                   \A e \in emails, x \in app_slugs :
                      \A g \in AccessOf(db', UserByEmail(db, Lower(e)),
                                        AppBySlug(db, x)) : g.role = role]_vars

\* ------------------------------------------------------------ claim C22
\* A verify request that took the challenge out of its dictionary.
Used(q, challenge) ==
    /\ req[q].op \in {"passkey_signin_verify", "passkey_register_verify"}
    /\ req[q].challenge = challenge

\* A request takes slot r in this step.
Arrives(r) == req[r].pc = "idle" /\ req'[r].pc # "idle"

\* Request r arrives at a verify endpoint presenting the challenge a verify
\* request before it has taken.
SecondVerify(r, credential) ==
    /\ Arrives(r)
    /\ \E q \in Requests \ {r} : Used(q, credential.challenge)
    /\ \/ passkey_signin_verify(r, credential)
       \/ \E u \in db.users : passkey_register_verify(r, u, credential)

\* C22 as stated: after one registration or authentication verify call,
\* successful or failed, a second verify call presenting the same challenge
\* fails with 'challenge expired or invalid'.
C22_SecondVerifyChallengeExpired ==
    [][\A r \in Requests, credential \in FreshAssertions :
          SecondVerify(r, credential) =>
              /\ req'[r].pc = "raise" /\ req'[r].status = 400
              /\ req'[r].detail = ChallengeExpired]_vars

\* C22 amended: after one registration or authentication verify call,
\* successful or failed, a second verify call presenting the same challenge
\* fails with status 400: with 'challenge expired or invalid' when the
\* dictionary holds nothing under the key, and with 'failed to register
\* passkey' when the dictionary holds another registration challenge for
\* the identity, which the call takes and checks the credential against.
C22_SecondVerifyFails ==
    [][\A r \in Requests, credential \in FreshAssertions :
          SecondVerify(r, credential) =>
              /\ req'[r].pc = "raise" /\ req'[r].status = 400
              /\ \/ req'[r].detail = ChallengeExpired
                 \/ /\ req'[r].detail = RegistrationFailed
                    /\ req'[r].op = "passkey_register_verify"
                    /\ req'[r].challenge # credential.challenge
                    /\ \E e \in challenges.register :
                         /\ e.user_id = req'[r].user
                         /\ e.challenge = req'[r].challenge
                         /\ e \notin challenges'.register]_vars

\* C22 witness: an authentication verify call succeeded with a challenge,
\* and another call presenting that challenge was refused with 'challenge
\* expired or invalid'.
C22_Witness ==
    \E r, q \in Requests :
        /\ req[q].op = "passkey_signin_verify" /\ req[q].pc = "return"
        /\ req[r].op = "passkey_signin_verify" /\ req[r].pc = "raise"
        /\ req[r].challenge_from_client = req[q].challenge
        /\ req[r].detail = ChallengeExpired

\* ------------------------------------------------------------ claim C23
\* What _passkey_registration_challenges holds under the identity's key.
RegistrationChallenge(store, u) == {e \in store.register : e.user_id = u.id}

\* C23: last challenge wins for registration.  After passkey_register_options
\* the dictionary holds for the identity only the challenge of that call,
\* which is later than every one it held; it never holds two for one
\* identity; a registration verify goes on to store a credential only when
\* the credential is signed over the challenge held, and is refused with
\* status 400 when it is signed over any other.
C23_LastChallengeWins ==
    [][\A u \in db.users :
          LET old == RegistrationChallenge(challenges, u)
              new == RegistrationChallenge(challenges', u)
          IN  /\ Cardinality(new) <= 1
              /\ (nextId' # nextId /\ passkey_register_options(u)) =>
                   /\ new = {[user_id |-> u.id,
                              challenge |-> nextId'.challenge]}
                   /\ \A e \in old : e.challenge < nextId'.challenge
              /\ \A r \in Requests, credential \in FreshAssertions :
                   (/\ Arrives(r) /\ req'[r].user = u.id
                    /\ passkey_register_verify(r, u, credential))
                   =>
                     /\ req'[r].pc = "reg_write" =>
                          \E e \in old : e.challenge = credential.challenge
                     /\ (\A e \in old : e.challenge # credential.challenge)
                          => req'[r].pc = "raise" /\ req'[r].status = 400
      ]_vars

\* C23 witness: the identity asked for registration options twice, and a
\* credential correctly signed over the earlier challenge was refused
\* against the later one.
C23_Witness ==
    \E r \in Requests :
        /\ req[r].op = "passkey_register_verify" /\ req[r].pc = "raise"
        /\ req[r].detail = RegistrationFailed
        /\ req[r].credential.sig
        /\ req[r].challenge_from_client < req[r].challenge
        /\ nextId.challenge = req[r].challenge
        /\ challenges.signin = {}
        /\ \A q \in Requests \ {r} : req[q].pc = "idle"

\* ------------------------------------------------------------ claim C24
\* The sessions of the users who are signed in when the ceremonies start.
SignedIn(signed_in) ==
    IF signed_in = {Alice, Bob}
    THEN {NewSession(1, Alice.id, 0), NewSession(2, Bob.id, 0)}
    ELSE {NewSession(1, u.id, 0) : u \in signed_in}

\* Two approved users, each signed in or not; Alice has a passkey.
InitCeremony ==
    /\ now = 0
    /\ \E signed_in \in SUBSET {Alice, Bob} :
         /\ db = [EmptyDb EXCEPT !.users = {Alice, Bob},
                                  !.creds = {AliceKey},
                                  !.sessions = SignedIn(signed_in)]
         /\ nextId = [session |-> Cardinality(signed_in), user |-> 2,
                      challenge |-> 0, app |-> 0]
    /\ tx = EmptyDb
    /\ dbWriter = NoWriter
    /\ req = [r \in Requests |-> Idle]
    /\ verified = {}
    /\ challenges = NoChallenges
    /\ settings = DefaultSettings

NextCeremony ==
    \/ passkey_signin_options
    \/ \E u \in db.users : passkey_register_options(u)
    \/ \E r \in Requests, c \in FreshAssertions : passkey_signin_verify(r, c)
    \/ \E r \in Requests : verify_authentication(r)
    \/ \E r \in Requests, u \in db.users, c \in FreshAssertions :
         passkey_register_verify(r, u, c)
    \/ \E r \in Requests : verify_registration_with_challenge(r)
    \/ \E r \in Requests : get_db(r)

SpecCeremony == InitCeremony /\ [][NextCeremony]_vars

\* C24: ceremonies under different keys do not interfere.  Beginning or
\* verifying a registration for identity u leaves the registration
\* challenge of every other identity and every authentication challenge as
\* they were; beginning or verifying an authentication with challenge c
\* leaves every other authentication challenge and every registration
\* challenge as they were; the later steps of a verify touch no challenge.
C24_OtherKeysUnchanged ==
    [][/\ \A u \in db.users :
            (/\ challenges' # challenges
             /\ \/ passkey_register_options(u)
                \/ \E r \in Requests, credential \in FreshAssertions :
                     passkey_register_verify(r, u, credential))
            => /\ challenges'.signin = challenges.signin
               /\ \A v \in db.users \ {u} :
                    RegistrationChallenge(challenges', v)
                        = RegistrationChallenge(challenges, v)
       /\ (challenges' # challenges /\ passkey_signin_options) =>
            /\ challenges'.register = challenges.register
            /\ challenges'.signin \ {nextId'.challenge} = challenges.signin
       /\ \A r \in Requests, credential \in FreshAssertions :
            (challenges' # challenges /\ passkey_signin_verify(r, credential))
            => /\ challenges'.register = challenges.register
               /\ challenges'.signin \ {credential.challenge}
                      = challenges.signin \ {credential.challenge}
       /\ \A r \in Requests :
            (challenges' # challenges) =>
                ~(\/ verify_authentication(r)
                  \/ verify_registration_with_challenge(r))
      ]_vars

\* C24 witness: Alice's registration verify took her challenge while Bob's
\* registration challenge stayed in the dictionary.
C24_Witness ==
    \E r \in Requests :
        /\ req[r].op = "passkey_register_verify" /\ req[r].user = Alice.id
        /\ req[r].challenge > 0
        /\ RegistrationChallenge(challenges, Alice) = {}
        /\ RegistrationChallenge(challenges, Bob) # {}
        /\ RegistrationChallenge(challenges, Bob)
               \cap {[user_id |-> Bob.id, challenge |-> c] :
                        c \in 1..req[r].challenge} # {}

\* ------------------------------------------------------------ claim C25
\* The server finishes every request it has accepted: the event loop
\* resumes a handler after its database I/O and the get_db dependency
\* closes the transaction.  Clients are under no obligation to call.
FairPasskey ==
    \A r \in Requests :
        /\ WF_vars(verify_authentication(r))
        /\ WF_vars(verify_registration_with_challenge(r))
        /\ WF_vars(get_db(r))

LivePasskey == SpecPasskey /\ FairPasskey

\* C25: every challenge placed in a challenge dictionary is eventually
\* removed from it, also when no verify call is ever made for it.
C25_ChallengeEventuallyRemoved ==
    \A c \in 1..MaxChallenges :
        /\ (c \in challenges.signin) ~> (c \notin challenges.signin)
        /\ (\E e \in challenges.register : e.challenge = c)
             ~> (\A e \in challenges.register : e.challenge # c)

\* ------------------------------------------------------ account handlers
\* The rows db.delete(user) loads through the relationships of User.
NoRows == [sessions |-> {}, creds |-> {}, grants |-> {}]

\* cookie is the Cookie header "session"; session is the query parameter
\* of that name signout declares.
IdleAccount ==
    [op |-> "none", pc |-> "idle", cookie |-> <<>>, session |-> <<>>,
     current_user |-> {}, loaded |-> NoRows, status |-> 0, ok |-> FALSE]

\* What deps.get_current_user ends with for the cookie: 200 when it returns
\* the user, the status of the HTTPException it raises, 500 when
\* verify_signed_token raises.
get_current_user_status(d, session, t) ==
    IF session = <<>> THEN 401
    ELSE IF verify_signed_token_raises(session) THEN 500
    ELSE LET token == {k \in verify_signed_token(session) : k # <<>>}
             found == UNION {get_by_token(d, k, t) : k \in token}
             user == {u \in d.users : \E s \in found : u.id = s.user_id}
         IN  IF user = {} THEN 401
             ELSE IF \E u \in user : u.status # "approved" THEN 403
             ELSE 200

\* The user deps.get_current_user returns when it returns.
get_current_user(d, session, t) ==
    LET token == {k \in verify_signed_token(session) : k # <<>>}
        found == UNION {get_by_token(d, k, t) : k \in token}
    IN  {u \in d.users : \E s \in found : u.id = s.user_id}

\* signout: "if session: token = verify_signed_token(session); if token:",
\* session being the query parameter.
signout_token(cookie, session) ==
    IF session = <<>> THEN {}
    ELSE {k \in verify_signed_token(session) : k # <<>>}

\* A DELETE without the WHERE clause.
SessionDelete_All(d, token) == [d EXCEPT !.sessions = {}]

\* SessionService.delete
SessionDelete(d, token) ==
    [d EXCEPT !.sessions = {s \in @ : s.token \notin token}]

\* POST /auth/signout, the whole handler: the CurrentUser dependency, then
\* the DELETE of the session the query parameter names, if it names one.
signout(r, cookie, session) ==
    /\ Slot(r)
    /\ LET st == get_current_user_status(View(r), cookie, now)
           rec == [IdleAccount EXCEPT !.op = "signout", !.cookie = cookie]
           read == [rec EXCEPT
                      !.session = session,
                      !.current_user = get_current_user(View(r), cookie, now)]
           token == signout_token(cookie, session)
       IN  IF st # 200
           THEN /\ req' = [req EXCEPT ![r] = Raise(rec, st)]
                /\ UNCHANGED <<db, tx, dbWriter>>
           ELSE IF session # <<>> /\ verify_signed_token_raises(session)
           THEN /\ req' = [req EXCEPT ![r] = Raise(read, 500)]
                /\ UNCHANGED <<db, tx, dbWriter>>
           ELSE IF token = {}
           THEN /\ req' = [req EXCEPT ![r] = Return(read)]
                /\ UNCHANGED <<db, tx, dbWriter>>
           ELSE /\ DbWrite(r, SessionDelete(View(r), token))
                /\ req' = [req EXCEPT ![r] = Return([read EXCEPT !.ok = TRUE])]
    /\ UNCHANGED <<now, nextId, verified, challenges, settings>>

\* delete_me: "if current_user.is_seeded"
delete_me_refused(current_user) == \E u \in current_user : u.is_seeded

\* The rows the relationships sessions, passkeys and app_access of the user
\* load, each with cascade="all, delete-orphan".
Related(d, user) ==
    [sessions |-> {s \in d.sessions : \E u \in user : s.user_id = u.id},
     creds |-> {c \in d.creds : \E u \in user : c.user_id = u.id},
     grants |-> {g \in d.grants : \E u \in user : g.user_id = u.id}]

\* The flush of db.delete(user): a DELETE by primary key for every row that
\* was loaded, and the DELETE of the user.
DeleteLoaded(d, user, loaded) ==
    [d EXCEPT !.users = {u \in @ : \A v \in user : u.id # v.id},
              !.sessions = {s \in @ : \A l \in loaded.sessions :
                                          s.token # l.token},
              !.creds = {c \in @ : \A l \in loaded.creds : c.id # l.id},
              !.grants = {g \in @ : \A l \in loaded.grants :
                                        ~(g.user_id = l.user_id
                                          /\ g.app_id = l.app_id)}]

\* DELETE /auth/me up to the flush: the CurrentUser dependency, the test of
\* the seeded flag, and db.delete(current_user), which loads the rows that
\* go with the user.
delete_me(r, cookie) ==
    /\ Slot(r)
    /\ LET st == get_current_user_status(View(r), cookie, now)
           rec == [IdleAccount EXCEPT !.op = "delete_me", !.cookie = cookie]
           current_user == get_current_user(View(r), cookie, now)
           read == [rec EXCEPT !.current_user = current_user]
       IN  req' = [req EXCEPT ![r] =
                     IF st # 200 THEN Raise(rec, st)
                     ELSE IF delete_me_refused(current_user)
                     THEN Raise(read, 400)
                     ELSE [read EXCEPT
                             !.pc = "flush",
                             !.loaded = Related(View(r), current_user)]]
    /\ UNCHANGED <<now, db, tx, dbWriter, nextId, verified, challenges, settings>>

\* DELETE /auth/me from db.flush() on.
delete_me_flush(r) ==
    /\ req[r].op = "delete_me" /\ req[r].pc = "flush"
    /\ DbWrite(r, DeleteLoaded(View(r), req[r].current_user, req[r].loaded))
    /\ req' = [req EXCEPT ![r] = Return([@ EXCEPT !.ok = TRUE])]
    /\ UNCHANGED <<now, nextId, verified, challenges, settings>>

\* Alice's unused sign-in code.
AliceCode == NewOtp(1, Alice.email, "123456", "signin", 0)

\* Alice and the seeded administrator, each signed in or not; Alice has a
\* passkey, a grant on the one app, and a sign-in code in her mailbox.
InitAccount ==
    /\ now = 0
    /\ \E signed_in \in SUBSET {Alice, Bob} :
         /\ db = [EmptyDb EXCEPT
                    !.users = {Alice, Bob},
                    !.sessions = SignedIn(signed_in),
                    !.otps = {AliceCode},
                    !.creds = {AliceKey},
                    !.apps = {[id |-> 1, slug |-> "wiki"]},
                    !.grants = {[user_id |-> Alice.id, app_id |-> 1,
                                 role |-> ""]}]
         /\ nextId = [session |-> Cardinality(signed_in), user |-> 2,
                      challenge |-> 0, app |-> 1]
    /\ tx = EmptyDb
    /\ dbWriter = NoWriter
    /\ req = [r \in Requests |-> Idle]
    /\ verified = {}
    /\ challenges = NoChallenges
    /\ settings = DefaultSettings

NextAccount ==
    \/ \E r \in Requests, cookie, session \in Cookies :
         signout(r, cookie, session)
    \/ \E r \in Requests : signin_verify(r, "A@x.com", "123456")
    \/ \E r \in Requests : verify(r)
    \/ \E r \in Requests : signin_verify_finish(r)
    \/ \E r \in Requests, cookie \in Cookies : delete_me(r, cookie)
    \/ \E r \in Requests : delete_me_flush(r)
    \/ \E a \in db.users, u \in 1..2 : delete_user(a, u)
    \/ \E a \in db.users, u \in 1..2, ad \in {"True", "False"} :
         update_user(a, u, "None", ad)
    \/ \E r \in Requests : get_db(r)

SpecAccount == InitAccount /\ [][NextAccount]_vars

\* ------------------------------------------------------------ claim C26
\* C26: once signout has returned for a request authenticated by a session
\* cookie, the session record of that cookie's token no longer exists and
\* resolving the same signed token returns none.
C26_SignoutInvalidatesSession ==
    [][\A r \in Requests :
          (req[r].op = "signout" /\ req[r].pc = "return" /\ get_db(r)) =>
              /\ \A k \in verify_signed_token(req[r].cookie) :
                   \A s \in db'.sessions : s.token # k
              /\ get_current_user_optional(db', req[r].cookie, now) = {}
      ]_vars

\* ------------------------------------------------------------ claim C27
\* C27: an identity with the seeded flag is never deleted: no step of
\* delete_me or of the administrators' delete_user takes a seeded user out
\* of the users table.
C27_SeededNeverDeleted ==
    [][\A u \in db.users :
          u.is_seeded => \E v \in db'.users : v.id = u.id /\ v.is_seeded
      ]_vars

\* ------------------------------------------------------------ claim C28
\* The user a row of sessions, passkey_credentials or user_app_access
\* refers to.
Owner(d, row) == {u \in d.users : u.id = row.user_id}

\* C28: after an identity is deleted, by delete_me or by an administrator's
\* delete_user, no session, passkey credential or grant that refers to it
\* remains in the store, and every session token issued for it resolves to
\* none.
C28_DeletedIdentityLeavesNothing ==
    /\ \A row \in db.sessions \cup db.creds \cup db.grants :
         Owner(db, row) # {}
    /\ \A s \in db.sessions :
         Owner(db, s) = {} =>
             get_current_user_optional(
                 db, create_signed_token(s.token), now) = {}

\* ------------------------------------------------------------ claim C29
\* The response of a register or signin request whose mail was not sent
\* leaves the server.
DeliveryFailed(r) ==
    /\ req[r].op \in CreateOps
    /\ req[r].pc = "raise" /\ req[r].status = 500
    /\ get_db(r)

\* C29: when email delivery fails during register or signin the request
\* reports failure, and after it completed the code create_and_send made
\* is in the table and the codes it had found valid for the (email,
\* purpose) are marked used: nothing create_and_send did is rolled back.
C29_DeliveryFailureKeepsCodes ==
    [][\A r \in Requests :
          DeliveryFailed(r) =>
              /\ \E o \in db'.otps :
                   /\ o.email = req[r].email /\ o.code = req[r].code
                   /\ o.purpose = PurposeOf(req[r].op)
                   /\ o.created_at = now /\ ~o.used
              /\ \A o \in db'.otps : o.id \in req[r].sel => o.used
      ]_vars

\* ------------------------------------------------------------ claim C30
\* Request r was refused because OTPService.verify found no valid code.
FailedVerification(r) ==
    /\ req[r].op \in VerifyOps
    /\ req[r].pc = "raise" /\ ~req[r].ok
    /\ req[r].op = "signin_verify" => req[r].user # 0

\* The code mailed to an address that has no account yet.
BobCode == NewOtp(2, Bob.email, "654321", "register", 0)

\* Alice has asked to sign in and b@y.org to register: both codes are in
\* the table, unused.
InitVerify ==
    /\ now = 0
    /\ db = [EmptyDb EXCEPT !.users = {Alice}, !.otps = {AliceCode, BobCode}]
    /\ tx = EmptyDb
    /\ dbWriter = NoWriter
    /\ req = [r \in Requests |-> Idle]
    /\ nextId = [session |-> 0, user |-> 1, challenge |-> 0, app |-> 0]
    /\ verified = {}
    /\ challenges = NoChallenges
    /\ settings = DefaultSettings

NextVerify ==
    \/ \E r \in Requests, e \in RawEmails, c \in Codes : register_verify(r, e, c)
    \/ \E r \in Requests, e \in RawEmails, c \in Codes : signin_verify(r, e, c)
    \/ \E r \in Requests : verify(r)
    \/ \E r \in Requests : register_verify_finish(r)
    \/ \E r \in Requests : signin_verify_finish(r)
    \/ \E r \in Requests : get_db(r)
    \/ Tick

SpecVerify == InitVerify /\ [][NextVerify]_vars

IdleService ==
    [op |-> "none", pc |-> "idle", token |-> <<>>, rowcount |-> 0,
     result |-> FALSE, ok |-> FALSE, status |-> 0]

\* result.rowcount of delete(Session).where(Session.token == token)
delete_rowcount(d, token) ==
    Cardinality({s \in d.sessions : s.token = token})

\* SessionService.delete(token): the DELETE and "return result.rowcount > 0".
delete(r, token) ==
    /\ Slot(r)
    /\ DbWrite(r, SessionDelete(View(r), {token}))
    /\ req' = [req EXCEPT ![r] =
                 Return([IdleService EXCEPT
                           !.op = "delete", !.token = token,
                           !.rowcount = delete_rowcount(View(r), token),
                           !.result = delete_rowcount(View(r), token) > 0])]
    /\ UNCHANGED <<now, nextId, verified, challenges, settings>>

\* The tokens handed out so far and one that never was.
ServiceTokens == {TokenOf(n) : n \in 1..(MaxSessions + 1)}

\* The sessions table at some moment of a deployment: each token handed
\* out is gone, expired or live.
SessionTables ==
    {{[token |-> TokenOf(n), user_id |-> 1 + (n % 2), expires_at |-> e[n]]
        : n \in {m \in 1..MaxSessions : e[m] >= 0}}
     : e \in [1..MaxSessions -> -1..SessionTTL]}

InitService ==
    /\ now = 0
    /\ \E sessions \in SessionTables :
         db = [EmptyDb EXCEPT !.users = {Alice, Bob}, !.sessions = sessions]
    /\ tx = EmptyDb
    /\ dbWriter = NoWriter
    /\ req = [r \in Requests |-> Idle]
    /\ nextId = [session |-> MaxSessions, user |-> 2, challenge |-> 0,
                 app |-> 0]
    /\ verified = {}
    /\ challenges = NoChallenges
    /\ settings = DefaultSettings


\* result.rowcount of delete(Session).where(Session.expires_at <= utcnow())
cleanup_rowcount(d, t) ==
    Cardinality({s \in d.sessions : s.expires_at <= t})

\* A cleanup that also deletes the sessions of the next instant.
CleanupExpired_Early(d, t) ==
    [d EXCEPT !.sessions = {s \in @ : ~(s.expires_at <= t + 1)}]

\* The DELETE of SessionService.cleanup_expired.
CleanupExpired(d, t) ==
    [d EXCEPT !.sessions = {s \in @ : ~(s.expires_at <= t)}]

\* SessionService.cleanup_expired() called in a request of its own.
cleanup_expired_call(r) ==
    /\ Slot(r)
    /\ DbWrite(r, CleanupExpired(View(r), now))
    /\ req' = [req EXCEPT ![r] =
                 Return([IdleService EXCEPT
                           !.op = "cleanup_expired",
                           !.rowcount = cleanup_rowcount(View(r), now)])]
    /\ UNCHANGED <<now, nextId, verified, challenges, settings>>

\* SessionService.get_by_token(token) called in a request of its own.
get_by_token_call(r, token) ==
    /\ Slot(r)
    /\ req' = [req EXCEPT ![r] =
                 Return([IdleService EXCEPT
                           !.op = "get_by_token", !.token = token,
                           !.result = get_by_token(View(r), token, now) # {}])]
    /\ UNCHANGED <<now, db, tx, dbWriter, nextId, verified, challenges, settings>>

NextService ==
    \/ \E r \in Requests, token \in ServiceTokens : delete(r, token)
    \/ \E r \in Requests : cleanup_expired_call(r)
    \/ \E r \in Requests, token \in ServiceTokens : get_by_token_call(r, token)
    \/ \E r \in Requests : get_db(r)
    \/ Tick

SpecService == InitService /\ [][NextService]_vars

\* ------------------------------------------------------------ claim C31
\* C31: SessionService.delete(token) is idempotent.  It returns true exactly
\* when a session record with that token existed, and removes it; no session
\* with a different token is affected; a second call with the same token
\* returns false and changes nothing.
C31_DeleteIdempotent ==
    [][\A r \in Requests :
          (req[r].pc = "idle" /\ req'[r].op = "delete") =>
              LET token == req'[r].token
              IN  /\ req'[r].result = (\E s \in db.sessions : s.token = token)
                  /\ tx'.sessions = {s \in db.sessions : s.token # token}
                  /\ delete_rowcount(tx', token) = 0
                  /\ SessionDelete(tx', {token}) = tx'
      ]_vars

\* C31 witness: delete returned true for a token while the session of
\* another token stayed in the table.
C31_Witness ==
    \E r \in Requests :
        /\ req[r].op = "delete" /\ req[r].result /\ dbWriter = r
        /\ tx.sessions # {}
        /\ \E s \in db.sessions : s.token = req[r].token

\* ------------------------------------------------------------ claim C35
\* C35: SessionService.cleanup_expired deletes exactly the sessions with
\* expires_at <= now and returns their number; it deletes no session that
\* still resolves: for every token, get_by_token gives the same result
\* immediately before and immediately after the cleanup.
C35_CleanupDeletesExactlyExpired ==
    [][\A r \in Requests :
          (req[r].pc = "idle" /\ req'[r].op = "cleanup_expired") =>
              /\ tx'.sessions = {s \in db.sessions : s.expires_at > now}
              /\ req'[r].rowcount =
                     Cardinality(db.sessions) - Cardinality(tx'.sessions)
              /\ \A token \in ServiceTokens :
                     get_by_token(tx', token, now)
                         = get_by_token(db, token, now)
      ]_vars

\* C35 witness: a cleanup removed an expired session and left a live one.
C35_Witness ==
    \E r \in Requests :
        /\ req[r].op = "cleanup_expired" /\ req[r].rowcount > 0
        /\ dbWriter = r
        /\ \E s \in tx.sessions : s.expires_at > now
        /\ \E s \in db.sessions : s.expires_at = now

\* ------------------------------------------------------------- claim C32
\* The stores a validate request can meet: Bob and Alice, Alice approved
\* or pending, any table of sessions, the app wiki registered or not and
\* Alice's grant on it there or not, under either default policy, at any
\* time.  No handler other than validate runs.
InitDecision ==
    /\ now \in 0..MaxTime
    /\ \E status \in {"approved", "pending"}, sessions \in SessionTables,
          apps \in SUBSET {[id |-> 1, slug |-> "wiki"]},
          grants \in SUBSET {[user_id |-> 1, app_id |-> 1, role |-> "editor"]} :
         /\ apps = {} => grants = {}
         /\ db = [EmptyDb EXCEPT
                    !.users = {[Alice EXCEPT !.status = status], Bob},
                    !.sessions = sessions, !.apps = apps, !.grants = grants]
    /\ tx = EmptyDb
    /\ dbWriter = NoWriter
    /\ req = [r \in Requests |-> Idle]
    /\ nextId = [session |-> MaxSessions, user |-> 2, challenge |-> 0,
                 app |-> 1]
    /\ verified = {}
    /\ challenges = NoChallenges
    /\ settings \in {[default_app_access |-> p] : p \in {"allow", "deny"}}

NextDecision ==
    \/ \E r \in Requests, c \in Cookies, x \in Slugs \cup {""} :
         validate(r, c, x)
    \/ \E r \in Requests : get_user_by_token(r)
    \/ \E r \in Requests : validate_app(r)
    \/ \E r \in Requests : validate_access(r)
    \/ \E r \in Requests : get_db(r)

SpecDecision == InitDecision /\ [][NextDecision]_vars

\* The identity a cookie stands for in the store d at time t: the approved
\* owner of the unexpired session whose signed token the cookie is.
CookieUser(d, t, cookie) ==
    {u \in d.users :
       /\ u.status = "approved"
       /\ \E s \in d.sessions :
            /\ s.user_id = u.id /\ s.expires_at > t
            /\ cookie = create_signed_token(s.token)}

\* C32: a step of a validate request, from its arrival to the end of its
\* database session, changes no session, identity, app, grant, OTP or
\* challenge, nor any pending write; the answer of a validate request is
\* the decision for the identity of its cookie and its app header in the
\* store at that time, and two validate requests with the same cookie and
\* the same app header in the same store get the same answer.
C32_ValidatePure ==
    [][/\ (\E r \in Requests :
             /\ req'[r] # req[r]
             /\ req[r].op = "validate" \/ req'[r].op = "validate") =>
            /\ db' = db /\ tx' = tx /\ dbWriter' = dbWriter
            /\ challenges' = challenges /\ nextId' = nextId
            /\ verified' = verified /\ settings' = settings /\ now' = now
       /\ \A r \in Requests :
            (req'[r].op = "validate" /\ req'[r].pc = "return") =>
               Answer(req'[r]) =
                 Answer(Decide(db, CookieUser(db, now, req'[r].cookie),
                               req'[r].x_gk_app))
       /\ \A r, q \in Requests :
            (/\ req'[r].op = "validate" /\ req'[q].op = "validate"
             /\ req'[r].pc \in {"return", "raise"}
             /\ req'[q].pc \in {"return", "raise"}
             /\ req'[r].cookie = req'[q].cookie
             /\ req'[r].x_gk_app = req'[q].x_gk_app) =>
               /\ req'[r].pc = req'[q].pc
               /\ req'[r].status = req'[q].status
               /\ Answer(req'[r]) = Answer(req'[q])]_vars

\* C32 witness: two validate requests with Alice's cookie for the app wiki
\* have both been answered 200 with her role, and the store holds what it
\* held: her live session and her grant.
C32_Witness ==
    /\ \A r \in Requests :
         /\ req[r].op = "validate" /\ req[r].pc = "return"
         /\ req[r].status = 200 /\ req[r].role = "editor"
         /\ req[r].x_gk_app = "wiki"
         /\ req[r].cookie = create_signed_token(TokenOf(2))
    /\ \E s \in db.sessions : s.token = TokenOf(2) /\ s.expires_at > now
    /\ db.grants # {}

\* ------------------------------------------------------------- claim C33
\* C33: when passkey_register_verify has a stored challenge for the user
\* and the posted credential fails a check of verify_registration_response
\* (its challenge is not the stored one, or signature, origin or
\* relying-party id are wrong), the request ends with the status 400 and
\* the one detail "Failed to register passkey", whichever check failed; it
\* writes nothing, and the end of its database session leaves the stored
\* credentials as they were.  A credential that passes goes on to the write.
C33_FailedRegistrationPersistsNothing ==
    [][\A r \in Requests :
         /\ (Arrives(r) /\ req'[r].op = "passkey_register_verify") =>
              LET stored == {e \in challenges.register :
                               e.user_id = req'[r].user}
                  credential == req'[r].credential
              IN  stored # {} =>
                    IF \E e \in stored : \/ credential.challenge # e.challenge
                                         \/ ~credential.sig
                    THEN /\ req'[r].pc = "raise" /\ req'[r].status = 400
                         /\ req'[r].detail = RegistrationFailed
                         /\ ~req'[r].ok
                         /\ db' = db /\ tx' = tx /\ dbWriter' = dbWriter
                    ELSE req'[r].pc = "reg_write"
         /\ (/\ req[r].op = "passkey_register_verify"
             /\ req[r].pc = "raise" /\ req'[r].pc = "idle") =>
              db' = db /\ tx' = tx /\ dbWriter' = dbWriter]_vars

\* C33 witness: a registration with a good signature under a challenge
\* that is not the stored one has been refused with the detail a wrong
\* signature gets; the stored challenge is spent and the only stored
\* credential is the one there was.
C33_Witness ==
    \E r \in Requests :
        /\ req[r].op = "passkey_register_verify" /\ req[r].pc = "raise"
        /\ req[r].detail = RegistrationFailed
        /\ req[r].challenge_from_client # req[r].challenge
        /\ req[r].credential.sig
        /\ ~\E e \in challenges.register : e.user_id = req[r].user
        /\ db.creds = {AliceKey}

\* ------------------------------------------------------------- claim C34
\* C34: the stored signature counter of a credential changes only when a
\* passkey sign-in whose verify_authentication succeeded for that
\* credential ends, and it is then the counter of the assertion; when such
\* a request ends, the stored counter of its credential is the counter of
\* its assertion; when a request whose verify_authentication failed ends,
\* no stored credential has changed.
C34_CounterFollowsSuccess ==
    [][/\ \A c \in db.creds, stored \in db'.creds :
            (c.id = stored.id /\ c.sign_count # stored.sign_count) =>
               \E r \in Requests :
                  /\ req[r].op = "passkey_signin_verify" /\ req[r].ok
                  /\ req'[r].pc = "idle"
                  /\ req[r].credential_id = c.credential_id
                  /\ stored.sign_count = req[r].credential.sign_count
       /\ \A r \in Requests :
            (/\ req[r].op = "passkey_signin_verify"
             /\ req[r].pc \in {"return", "raise"} /\ req'[r].pc = "idle") =>
               IF req[r].ok
               THEN \A stored \in db'.creds :
                       stored.credential_id = req[r].credential_id =>
                          stored.sign_count = req[r].credential.sign_count
               ELSE db'.creds = db.creds]_vars

\* ------------------------------------------------------------- claim C36
\* The signed-in administrator Bob, and Alice either approved with a
\* sign-in code and a passkey, or not registered with a register code for
\* her address.
InitMint ==
    /\ now = 0
    /\ \/ db = [EmptyDb EXCEPT !.users = {Alice, Bob},
                                !.sessions = {NewSession(1, Bob.id, 0)},
                                !.otps = {AliceCode},
                                !.creds = {AliceKey}]
       \/ db = [EmptyDb EXCEPT !.users = {Bob},
                                !.sessions = {NewSession(1, Bob.id, 0)},
                                !.otps = {NewOtp(1, Alice.email, "123456",
                                                 "register", 0)}]
    /\ tx = EmptyDb
    /\ dbWriter = NoWriter
    /\ req = [r \in Requests |-> Idle]
    /\ nextId = [session |-> 1, user |-> 2, challenge |-> 0, app |-> 0]
    /\ verified = {}
    /\ challenges = NoChallenges
    /\ settings = DefaultSettings

NextMint ==
    \/ \E r \in Requests : register_verify(r, "A@x.com", "123456")
    \/ \E r \in Requests : register_verify_finish(r)
    \/ \E r \in Requests : signin_verify(r, "A@x.com", "123456")
    \/ \E r \in Requests : verify(r)
    \/ \E r \in Requests : signin_verify_finish(r)
    \/ passkey_signin_options
    \/ \E r \in Requests, c \in FreshAssertions : passkey_signin_verify(r, c)
    \/ \E r \in Requests : verify_authentication(r)
    \/ \E a \in db.users, u \in 1..3,
          st \in {"approved", "pending", "rejected"} :
         update_user(a, u, st, "None")
    \/ \E r \in Requests : get_db(r)

SpecMint == InitMint /\ [][NextMint]_vars

\* C36: a session record is only written, and only committed, for an
\* identity whose stored status is approved at that time, on the three
\* paths that create sessions.
C36_SessionOnlyForApproved ==
    [][/\ \A s \in db'.sessions \ db.sessions :
            \E u \in db'.users : u.id = s.user_id /\ u.status = "approved"
       /\ \A r \in Requests :
            (dbWriter' = r /\ req'[r] # req[r]) =>
               \A s \in tx'.sessions \ View(r).sessions :
                  \E u \in tx'.users :
                     u.id = s.user_id /\ u.status = "approved"]_vars

\* ------------------------------------------------------------- claim C37
\* Whether an OTP of the purpose may be issued to the email in the store d.
Eligible(d, email, purpose) ==
    IF purpose = "register" THEN UserByEmail(d, email) = {}
    ELSE \E u \in UserByEmail(d, email) : u.status = "approved"

\* C37: a register request writes a register code only while no identity
\* exists for the lowercased email and a signin request writes a signin
\* code only while an approved identity exists for it, and the same holds
\* when the code is committed; a register or signin request that fails
\* leaves the OTP records as they were.
C37_OtpOnlyForEligible ==
    [][/\ \A r \in Requests :
            (dbWriter' = r /\ req'[r] # req[r]
             /\ req[r].op \in {"register", "signin"}) =>
               \A o \in tx'.otps :
                  (~\E p \in View(r).otps : p.id = o.id) =>
                     /\ o.email = req[r].email
                     /\ o.purpose = req[r].op
                     /\ Eligible(tx', o.email, o.purpose)
       /\ \A o \in db'.otps :
            (~\E p \in db.otps : p.id = o.id) =>
               Eligible(db', o.email, o.purpose)
       /\ \A r \in Requests :
            (/\ req[r].op \in {"register", "signin"}
             /\ req[r].pc = "raise" /\ req'[r].pc = "idle") =>
               db'.otps = db.otps]_vars

\* ------------------------------------------------------------- claim C38
\* Nobody is registered; a register code is in the mailbox of each address.
\* Registrations are completed by up to two requests at a time while an
\* administrator creates accounts, administrators among them.
InitEnrol ==
    /\ now = 0
    /\ db = [EmptyDb EXCEPT
               !.otps = {NewOtp(1, Alice.email, "123456", "register", 0),
                         BobCode}]
    /\ tx = EmptyDb
    /\ dbWriter = NoWriter
    /\ req = [r \in Requests |-> Idle]
    /\ nextId = [session |-> 0, user |-> 0, challenge |-> 0, app |-> 0]
    /\ verified = {}
    /\ challenges = NoChallenges
    /\ settings = DefaultSettings

NextEnrol ==
    \/ \E r \in Requests, e \in RawEmails, c \in Codes :
         register_verify(r, e, c)
    \/ \E r \in Requests : register_verify_finish(r)
    \/ \E e \in RawEmails, auto_approve, is_admin \in BOOLEAN :
         create_user(e, auto_approve, is_admin)
    \/ \E r \in Requests : get_db(r)

SpecEnrol == InitEnrol /\ [][NextEnrol]_vars

\* C38: when register/verify has verified the code, it creates no identity
\* and is refused if one exists for the email; otherwise it creates exactly
\* one, for that email, not an administrator, approved if the domain of the
\* email is an accepted domain and pending if not, and leaves every other
\* identity as it is.  The end of the request changes no stored identity
\* and adds at most that one, and no two identities share an email.
C38_SelfRegistration ==
    [][/\ \A r \in Requests :
            (/\ req[r].op = "register_verify" /\ req[r].pc = "v_write"
             /\ req'[r].pc # "v_write") =>
               LET email == req[r].email
                   created == IF dbWriter' = r THEN tx'.users \ db.users
                              ELSE {}
               IN  IF \E u \in db.users : u.email = email
                   THEN /\ created = {}
                        /\ req'[r].pc = "raise" /\ req'[r].status = 400
                   ELSE /\ dbWriter' = r /\ db.users \subseteq tx'.users
                        /\ Cardinality(created) = 1
                        /\ \A u \in created :
                             /\ u.email = email /\ ~u.is_admin
                             /\ u.status =
                                  IF email = "a@x.com" THEN "approved"
                                  ELSE "pending"
       /\ \A r \in Requests :
            (req[r].op = "register_verify" /\ req'[r].pc = "idle"
             /\ req[r].pc # "idle") =>
               /\ db.users \subseteq db'.users
               /\ \A u \in db'.users \ db.users :
                    ~u.is_admin /\ u.email = req[r].email
       /\ \A u, v \in db'.users : u.email = v.email => u = v]_vars

\* C38 witness: both kinds of self-registration are committed, Alice's
\* approved and Bob's pending, neither an administrator.
C38_Witness ==
    /\ \E u \in db.users :
         u.email = "a@x.com" /\ u.status = "approved" /\ ~u.is_admin
    /\ \E u \in db.users :
         u.email = "b@y.org" /\ u.status = "pending" /\ ~u.is_admin
    /\ \A o \in db.otps : o.used
    /\ \E s \in db.sessions : \E u \in db.users :
         u.id = s.user_id /\ u.email = "a@x.com"

\* ------------------------------------------------------------- claim C39
\* C39: in every reachable state, approving any pending access request of
\* a registered app succeeds, whether or not the user holds a grant on the
\* app by then, and ends with the request approved and exactly one grant
\* for (user, app); a request that is not pending is never changed.
C39_PendingApprovalSucceeds ==
    [][/\ \A app \in db'.apps, q \in db'.requests, user \in db'.users,
            role \in Roles :
            (/\ q.app_id = app.id /\ q.user_id = user.id
             /\ q.status = "pending") =>
               LET done == ApprovedAndGranted(db', app, q, user, role)
               IN  /\ done # {}
                   /\ \A d \in done :
                        /\ [q EXCEPT !.status = "approved"] \in d.requests
                        /\ Cardinality({g \in d.grants :
                                          /\ g.user_id = user.id
                                          /\ g.app_id = app.id}) = 1
       /\ \A q \in db.requests : q.status # "pending" => q \in db'.requests]_vars

\* ------------------------------------------------------------- claim C40
IdleAdmin ==
    [op |-> "none", pc |-> "idle", slug |-> "", app |-> {}, loaded |-> {},
     ok |-> FALSE, status |-> 0]

\* DELETE /admin/apps/{slug} up to the flush: the SELECT of the app, and
\* db.delete(app), which loads app.user_access for the cascade.
delete_app_call(r, a, slug) ==
    /\ Slot(r)
    /\ AdminUser(a)
    /\ LET app == AppBySlug(View(r), slug)
           rec == [IdleAdmin EXCEPT !.op = "delete_app", !.slug = slug]
       IN  req' = [req EXCEPT ![r] =
                     IF app = {} THEN Raise(rec, 404)
                     ELSE [rec EXCEPT
                             !.pc = "flush", !.app = app,
                             !.loaded = {g \in View(r).grants :
                                           \E x \in app : g.app_id = x.id}]]
    /\ UNCHANGED <<now, db, tx, dbWriter, nextId, verified, challenges, settings>>

\* delete_app, "await db.flush()": a DELETE by primary key for each grant
\* that was loaded, and the DELETE of the app.
delete_app_flush(r) ==
    /\ req[r].op = "delete_app" /\ req[r].pc = "flush"
    /\ DbWrite(r, [View(r) EXCEPT
                     !.grants = @ \ req[r].loaded,
                     !.apps = {x \in @ : \A y \in req[r].app : x.id # y.id}])
    /\ req' = [req EXCEPT ![r] = Return([@ EXCEPT !.ok = TRUE])]
    /\ UNCHANGED <<now, nextId, verified, challenges, settings>>

\* Alice and the administrator Bob are signed in; the app wiki is
\* registered, with or without Alice's grant, under either default policy.
InitUnregister ==
    /\ now = 0
    /\ \E grants \in SUBSET {[user_id |-> Alice.id, app_id |-> 1,
                              role |-> "editor"]} :
         db = [EmptyDb EXCEPT
                 !.users = {Alice, Bob},
                 !.sessions = {NewSession(1, Alice.id, 0),
                               NewSession(2, Bob.id, 0)},
                 !.apps = {[id |-> 1, slug |-> "wiki"]},
                 !.grants = grants]
    /\ tx = EmptyDb
    /\ dbWriter = NoWriter
    /\ req = [r \in Requests |-> Idle]
    /\ nextId = [session |-> 2, user |-> 2, challenge |-> 0, app |-> 1]
    /\ verified = {}
    /\ challenges = NoChallenges
    /\ settings \in {[default_app_access |-> p] : p \in {"allow", "deny"}}

NextUnregister ==
    \/ \E r \in Requests, a \in db.users : delete_app_call(r, a, "wiki")
    \/ \E r \in Requests : delete_app_flush(r)
    \/ \E a \in db.users : create_app(a, "wiki")
    \/ \E a \in db.users, role \in Roles :
         grant_app_access(a, "wiki", "A@x.com", role)
    \/ \E a \in db.users : revoke_app_access(a, "wiki", "A@x.com")
    \/ \E r \in Requests :
         validate(r, create_signed_token(TokenOf(1)), "wiki")
    \/ \E r \in Requests : get_user_by_token(r)
    \/ \E r \in Requests : validate_app(r)
    \/ \E r \in Requests : validate_access(r)
    \/ \E r \in Requests : get_db(r)

SpecUnregister == InitUnregister /\ [][NextUnregister]_vars

\* C40: when delete_app(s) is committed, no app has the slug s, no grant
\* of the deleted app is left, and validate for s by an approved
\* non-administrator follows the default policy: 200 without role under
\* allow, 403 under deny; an app created with the slug s starts without a
\* grant.
C40_DeleteAppUnregisters ==
    [][/\ \A r \in Requests :
            (/\ req[r].op = "delete_app" /\ req[r].pc = "return"
             /\ req'[r].pc = "idle") =>
               /\ AppBySlug(db', req[r].slug) = {}
               /\ \A g \in db'.grants :
                    \A x \in req[r].app : g.app_id # x.id
               /\ \A u \in db'.users :
                    (~u.is_admin /\ u.status = "approved") =>
                       Answer(Decide(db', {u}, req[r].slug)) =
                         IF settings.default_app_access = "deny"
                         THEN <<403, "", "">>
                         ELSE <<200, u.email, "">>
       /\ \A x \in db'.apps \ db.apps :
            \A u \in db'.users : AccessOf(db', {u}, {x}) = {}]_vars

====
